---- MODULE Spec2Model ----
(***************************************************************************)
(* A model of the insight pipeline of Data_Nexa's AI engine                *)
(* (backend/app/core/ai_engine): AIService.generate_insights with its      *)
(* cache, the tenacity-wrapped GroqClient.generate, the response parser,   *)
(* the categorizer, the code-generation loop, the executive summary and    *)
(* the rule-based fallback.                                                *)
(*                                                                         *)
(* Text is modelled as a sequence of tokens: a word, ":" , "|", "SP" (one  *)
(* blank) or "NL" (one line break).  Substring tests of the code are made  *)
(* on whole tokens.  Percentages and scores are integers.                  *)
(***************************************************************************)
EXTENDS Integers, Sequences, FiniteSets, TLC

VARIABLES profile, cache, rq, token_usage, unit

vars == <<profile, cache, rq, token_usage, unit>>

(***************************************************************************)
(* Bounds of the model.                                                    *)
(***************************************************************************)
MaxCols == 1
\* The columns of a profile and the raw insights of a list, where a single
\* component is exercised on its own.
MaxUnitCols == 2
MaxRaw == 2
\* The lines of a response handed to the parser on its own.
MaxLines == 2
\* The words of a description handed to the type detection on its own.
MaxWords == 2
\* The columns of a profile handed to the prompt's issues summary on its own.
MaxSummaryCols == 6

(***************************************************************************)
(* Text helpers (str.strip, str.split, len, str.upper, str.lower).         *)
(***************************************************************************)
IsSpace(t) == t \in {"SP", "NL"}

RECURSIVE LStrip(_)
LStrip(s) == IF s # <<>> /\ IsSpace(Head(s)) THEN LStrip(Tail(s)) ELSE s

RECURSIVE RStrip(_)
RStrip(s) ==
    IF s # <<>> /\ IsSpace(s[Len(s)]) THEN RStrip(SubSeq(s, 1, Len(s) - 1)) ELSE s

Strip(s) == RStrip(LStrip(s))

TokLen(t) == IF IsSpace(t) THEN 1 ELSE Len(t)

RECURSIVE CharLen(_)
CharLen(s) == IF s = <<>> THEN 0 ELSE TokLen(Head(s)) + CharLen(Tail(s))

Upper(t) ==
    CASE t \in {"critical", "Critical", "CRITICAL"} -> "CRITICAL"
      [] t \in {"warning", "Warning", "WARNING"} -> "WARNING"
      [] t \in {"info", "Info", "INFO"} -> "INFO"
      [] t \in {"recommendation", "Recommendation", "RECOMMENDATION"} -> "RECOMMENDATION"
      [] OTHER -> t

Lower(t) ==
    CASE Upper(t) = "CRITICAL" -> "critical"
      [] Upper(t) = "WARNING" -> "warning"
      [] Upper(t) = "INFO" -> "info"
      [] Upper(t) = "RECOMMENDATION" -> "recommendation"
      [] t = "Outliers" -> "outliers"
      [] t = "Missing" -> "missing"
      [] OTHER -> t

Contains(s, t) == \E i \in 1..Len(s) : s[i] = t

\* The position of the first token t in s, 0 when there is none.
RECURSIVE IndexOf(_, _, _)
IndexOf(s, t, i) ==
    IF i > Len(s) THEN 0 ELSE IF s[i] = t THEN i ELSE IndexOf(s, t, i + 1)

\* s.split(sep): the pieces of s between the occurrences of sep.
RECURSIVE Split(_, _)
Split(s, sep) ==
    LET i == IndexOf(s, sep, 1)
    IN  IF i = 0 THEN <<s>>
        ELSE <<SubSeq(s, 1, i - 1)>> \o Split(SubSeq(s, i + 1, Len(s)), sep)

\* s.split(sep, 1): cut at the first sep only.
Split1(s, sep) ==
    LET i == IndexOf(s, sep, 1)
    IN  IF i = 0 THEN <<s>>
        ELSE <<SubSeq(s, 1, i - 1), SubSeq(s, i + 1, Len(s))>>

\* "\n".join(lines): the text made of the lines.
RECURSIVE JoinLines(_)
JoinLines(lines) ==
    IF lines = <<>> THEN <<>>
    ELSE IF Len(lines) = 1 THEN lines[1]
    ELSE lines[1] \o <<"NL">> \o JoinLines(Tail(lines))

(***************************************************************************)
(* ResponseParser.                                                         *)
(***************************************************************************)
SeverityKeywords == {"CRITICAL", "WARNING", "INFO"}

\* validate_response rejects a response of fewer characters than this.
MinResponseLen == 10

RawInsight(sev, desc, rec) ==
    [severity |-> sev, description |-> desc, recommendation |-> rec]

\* re.match(r"(CRITICAL|WARNING|INFO):\s*(.+)", part, re.IGNORECASE)
SeverityMatch(part) ==
    /\ Len(part) >= 3
    /\ Upper(part[1]) \in SeverityKeywords
    /\ part[2] = ":"

\* re.match(r"RECOMMENDATION:\s*(.+)", rec_part, re.IGNORECASE)
RecommendationMatch(part) ==
    /\ Len(part) >= 3
    /\ Upper(part[1]) = "RECOMMENDATION"
    /\ part[2] = ":"

\* group(n).strip() of either match: the text after the colon, trimmed.
AfterColon(part) == Strip(SubSeq(part, 3, Len(part)))

\* _parse_line: <<>> stands for None, <<insight>> for a parsed insight.
_parse_line(line) ==
    IF Contains(line, "|")
    THEN LET parts         == Split1(line, "|")
             severity_part == Strip(parts[1])
             rec_part      == IF Len(parts) > 1 THEN Strip(parts[2]) ELSE <<>>
             recommendation ==
                 IF rec_part = <<>> THEN <<>>
                 ELSE IF RecommendationMatch(rec_part) THEN AfterColon(rec_part)
                 ELSE rec_part
         IN  IF ~SeverityMatch(severity_part) THEN <<>>
             ELSE <<RawInsight(Lower(severity_part[1]), AfterColon(severity_part),
                               recommendation)>>
    ELSE IF SeverityMatch(line)
         THEN <<RawInsight(Lower(line[1]), AfterColon(line), <<>>)>>
         ELSE <<>>

RECURSIVE ParseLines(_)
ParseLines(lines) ==
    IF lines = <<>> THEN <<>>
    ELSE LET line == Strip(Head(lines))
         IN  (IF line # <<>> /\ Contains(line, ":") THEN _parse_line(line) ELSE <<>>)
             \o ParseLines(Tail(lines))

\* ResponseParser.parse
parse(response) == ParseLines(Split(Strip(response), "NL"))

\* keyword in response.upper(), for a keyword with its colon: a substring
\* test, so the keyword may be the end of a longer word.
HasSeverityKeyword(response) ==
    \E i \in 1..(Len(response) - 1) :
        /\ Upper(response[i]) \in SeverityKeywords \/ response[i] \in {"MISINFO", "misinfo"}
        /\ response[i + 1] = ":"

\* A faulty variant of validate_response: the length is taken of the
\* response as it came, not trimmed.
validate_response_NoStrip(response) ==
    IF response = <<>> \/ CharLen(response) < MinResponseLen THEN FALSE
    ELSE HasSeverityKeyword(response)

\* ResponseParser.validate_response
validate_response(response) ==
    IF response = <<>> \/ CharLen(Strip(response)) < MinResponseLen THEN FALSE
    ELSE HasSeverityKeyword(response)

(***************************************************************************)
(* Data: the absent value, profiles, insights.                             *)
(***************************************************************************)
\* Python's None, where a field holds either None or a text.
None == <<"<None>">>

ColumnNames == <<"age", "email", "city", "zip">>

\* A ColumnProfile.  outliers is <<>> (no outlier data) or <<percentage>>.
ColumnProfile(name, nullpct, outl) ==
    [column_name |-> name, null_percentage |-> nullpct, outliers |-> outl]

\* A ProfileResult.  quality_metrics is <<>> (attribute absent) or
\* <<duplicate_percentage>>.
ProfileResult(rows, cols, quality, qm) ==
    [row_count |-> rows, column_count |-> Len(cols), quality_score |-> quality,
     column_profiles |-> cols, quality_metrics |-> qm]

\* models.CategorizedInsight: all eight fields.
CategorizedInsight(sev, type, desc, rec, prio, cols, impact, code) ==
    [severity |-> sev, type |-> type, description |-> desc,
     recommendation |-> rec, priority |-> prio, affected_columns |-> cols,
     impact |-> impact, code_suggestion |-> code]

\* insight_categorizer.CategorizedInsight: the dataclass the categorizer
\* builds has no code_suggestion field.
CategorizerInsight(sev, type, desc, rec, prio, cols, impact) ==
    [severity |-> sev, type |-> type, description |-> desc,
     recommendation |-> rec, priority |-> prio, affected_columns |-> cols,
     impact |-> impact]

\* insight.code_suggestion = code (creates the attribute when it is missing).
SetCode(insight, code) ==
    [f \in DOMAIN insight \cup {"code_suggestion"} |->
        IF f = "code_suggestion" THEN code ELSE insight[f]]

HasCode(insight) == "code_suggestion" \in DOMAIN insight

(***************************************************************************)
(* InsightCategorizer.                                                     *)
(***************************************************************************)
\* The keywords of _detect_type and _generate_python that occur inside a
\* (lower-cased) word of the vocabulary.
WordKeywords(w) ==
    CASE w = "missing" -> {"missing"}
      [] w = "null" -> {"null"}
      [] w \in {"duplicate", "duplicates"} -> {"duplicate"}
      [] w \in {"outlier", "outliers"} -> {"outlier"}
      [] w \in {"type", "types"} -> {"type"}
      [] w = "mismatch" -> {"mismatch"}
      [] w \in {"format", "formats"} -> {"format"}
      [] w = "correlation" -> {"correlation"}
      [] w = "cardinality" -> {"cardinality"}
      [] w = "unique" -> {"unique"}
      [] w = "empty" -> {"empty"}
      [] w = "blank" -> {"blank"}
      [] w = "repeated" -> {"repeated"}
      [] w \in {"anomaly", "anomalies", "anomalous"} -> {"anomal"}
      [] w = "prototype" -> {"type"}
      [] w = "pattern" -> {"pattern"}
      [] w = "structure" -> {"structure"}
      [] w = "multicollinearity" -> {"multicollinearity"}
      [] w \in {"related", "unrelated"} -> {"related"}
      [] w = "distinct" -> {"distinct"}
      [] OTHER -> {}

\* any(keyword in description.lower() for keyword in kws)
HasKeyword(description, kws) ==
    \E i \in 1..Len(description) : WordKeywords(Lower(description[i])) \cap kws # {}

\* A faulty variant of _detect_type: the outlier keywords are tested before
\* the duplicate keywords.
_detect_type_OutliersFirst(description) ==
    IF HasKeyword(description, {"missing", "null", "empty", "blank"})
        THEN "missing_data"
    ELSE IF HasKeyword(description, {"outlier", "anomal"}) THEN "outliers"
    ELSE IF HasKeyword(description, {"duplicate", "repeated"}) THEN "duplicates"
    ELSE IF HasKeyword(description, {"type", "mismatch", "inconsistent type"})
        THEN "data_type_mismatch"
    ELSE IF HasKeyword(description, {"pattern", "format", "structure"})
        THEN "pattern_violation"
    ELSE "quality_issue"

\* InsightCategorizer._detect_type
_detect_type(description) ==
    IF HasKeyword(description, {"missing", "null", "empty", "blank"})
        THEN "missing_data"
    ELSE IF HasKeyword(description, {"duplicate", "repeated"}) THEN "duplicates"
    ELSE IF HasKeyword(description, {"outlier", "anomal"}) THEN "outliers"
    ELSE IF HasKeyword(description, {"type", "mismatch", "inconsistent type"})
        THEN "data_type_mismatch"
    ELSE IF HasKeyword(description, {"pattern", "format", "structure"})
        THEN "pattern_violation"
    ELSE IF HasKeyword(description, {"correlation", "multicollinearity", "related"})
        THEN "quality_issue"
    ELSE IF HasKeyword(description, {"cardinality", "unique", "distinct"})
        THEN "quality_issue"
    ELSE "quality_issue"

Max(a, b) == IF a >= b THEN a ELSE b

\* A faulty variant of _calculate_priority: the goal adjustment is floored
\* at 0 instead of 1.
_calculate_priority_Floor0(severity, insight_type, goal_type) ==
    LET base == CASE severity = "critical" -> 1
                  [] severity = "warning" -> 2
                  [] severity = "info" -> 5
                  [] OTHER -> 3
    IN  IF goal_type = "ml_preparation"
        THEN IF insight_type \in {"missing_data", "duplicates", "outliers"}
             THEN Max(0, base - 1) ELSE base
        ELSE IF goal_type = "business_reporting"
        THEN IF insight_type \in {"pattern_violation", "data_type_mismatch"}
             THEN Max(0, base - 1) ELSE base
        ELSE IF goal_type = "anomaly_detection"
        THEN IF insight_type = "outliers" THEN Max(0, base - 1) ELSE base
        ELSE base

\* A faulty variant of _calculate_priority: the goal adjustment has no floor.
_calculate_priority_NoFloor(severity, insight_type, goal_type) ==
    LET base == CASE severity = "critical" -> 1
                  [] severity = "warning" -> 2
                  [] severity = "info" -> 5
                  [] OTHER -> 3
    IN  IF goal_type = "ml_preparation"
        THEN IF insight_type \in {"missing_data", "duplicates", "outliers"}
             THEN base - 1 ELSE base
        ELSE IF goal_type = "business_reporting"
        THEN IF insight_type \in {"pattern_violation", "data_type_mismatch"}
             THEN base - 1 ELSE base
        ELSE IF goal_type = "anomaly_detection"
        THEN IF insight_type = "outliers" THEN base - 1 ELSE base
        ELSE base

\* A faulty variant of _calculate_priority: the anomaly_detection branch is
\* missing.
_calculate_priority_NoAnomaly(severity, insight_type, goal_type) ==
    LET base == CASE severity = "critical" -> 1
                  [] severity = "warning" -> 2
                  [] severity = "info" -> 5
                  [] OTHER -> 3
    IN  IF goal_type = "ml_preparation"
        THEN IF insight_type \in {"missing_data", "duplicates", "outliers"}
             THEN Max(1, base - 1) ELSE base
        ELSE IF goal_type = "business_reporting"
        THEN IF insight_type \in {"pattern_violation", "data_type_mismatch"}
             THEN Max(1, base - 1) ELSE base
        ELSE base

\* InsightCategorizer._calculate_priority
_calculate_priority(severity, insight_type, goal_type) ==
    LET base == CASE severity = "critical" -> 1
                  [] severity = "warning" -> 2
                  [] severity = "info" -> 5
                  [] OTHER -> 3
    IN  IF goal_type = "ml_preparation"
        THEN IF insight_type \in {"missing_data", "duplicates", "outliers"}
             THEN Max(1, base - 1) ELSE base
        ELSE IF goal_type = "business_reporting"
        THEN IF insight_type \in {"pattern_violation", "data_type_mismatch"}
             THEN Max(1, base - 1) ELSE base
        ELSE IF goal_type = "anomaly_detection"
        THEN IF insight_type = "outliers" THEN Max(1, base - 1) ELSE base
        ELSE base

\* InsightCategorizer._determine_impact
_determine_impact(severity, insight_type) ==
    IF severity = "critical" THEN "High"
    ELSE IF severity = "warning"
         THEN IF insight_type \in {"missing_data", "duplicates"} THEN "High"
              ELSE "Medium"
    ELSE "Low"

Quoted(name) == "'" \o name \o "'"
DQuoted(name) == "\"" \o name \o "\""

\* f" {col_name} " in f" {description} ": the name stands as a word of its own.
Standalone(description, name) ==
    \E i \in 1..Len(description) :
        /\ description[i] = name
        /\ (i = 1 \/ description[i - 1] = "SP")
        /\ (i = Len(description) \/ description[i + 1] = "SP")

RECURSIVE ExtractFrom(_, _)
ExtractFrom(description, cols) ==
    IF cols = <<>> THEN <<>>
    ELSE LET name == Head(cols).column_name
         IN  (IF \/ Contains(description, Quoted(name))
                 \/ Contains(description, DQuoted(name))
                 \/ Standalone(description, name)
              THEN <<name>> ELSE <<>>) \o ExtractFrom(description, Tail(cols))

\* InsightCategorizer._extract_columns
_extract_columns(description, profile_result) ==
    ExtractFrom(description, profile_result.column_profiles)

\* The order of Python's string comparison on the severities.
SeverityOrder(s) ==
    CASE s = "critical" -> 1
      [] s = "info" -> 2
      [] s = "warning" -> 3
      [] OTHER -> 4

\* A faulty variant of the sort key: the priority alone.
KeyLeq_PriorityOnly(a, b) == a.priority <= b.priority

\* (a.priority, a.severity) <= (b.priority, b.severity)
KeyLeq(a, b) ==
    \/ a.priority < b.priority
    \/ a.priority = b.priority /\ SeverityOrder(a.severity) <= SeverityOrder(b.severity)

\* Insert x behind every element whose key is not greater (a stable sort).
RECURSIVE InsertByKey(_, _)
InsertByKey(x, sorted) ==
    IF sorted = <<>> THEN <<x>>
    ELSE IF KeyLeq(Head(sorted), x) THEN <<Head(sorted)>> \o InsertByKey(x, Tail(sorted))
    ELSE <<x>> \o sorted

RECURSIVE SortFrom(_, _)
SortFrom(rest, sorted) ==
    IF rest = <<>> THEN sorted ELSE SortFrom(Tail(rest), InsertByKey(Head(rest), sorted))

\* A faulty variant of the sort: the list keeps the order of the response.
SortByPriority_Unsorted(list) == list

\* list.sort(key=lambda x: (x.priority, x.severity))
SortByPriority(list) == SortFrom(list, <<>>)

CategorizeOne(raw, profile_result, goal_type) ==
    LET insight_type == _detect_type(raw.description)
    IN  CategorizerInsight(raw.severity, insight_type, raw.description,
                           raw.recommendation,
                           _calculate_priority(raw.severity, insight_type, goal_type),
                           _extract_columns(raw.description, profile_result),
                           _determine_impact(raw.severity, insight_type))

\* InsightCategorizer.categorize
categorize(raw_insights, profile_result, goal_type) ==
    SortByPriority([i \in 1..Len(raw_insights) |->
                        CategorizeOne(raw_insights[i], profile_result, goal_type)])

(***************************************************************************)
(* CodeGenerator (python snippets).  A snippet is named by its template    *)
(* and the columns substituted into it.                                    *)
(***************************************************************************)
Snippet(template, cols) == <<"python", template>> \o cols

\* CodeGenerator._generate_python
_generate_python(insight) ==
    LET insight_type  == insight.type
        affected_cols == insight.affected_columns
        first         == <<affected_cols[1]>>
    IN  IF insight_type = "missing_data"
        THEN IF affected_cols # <<>> THEN Snippet("missing_values_column", first)
             ELSE Snippet("missing_values", <<>>)
        ELSE IF insight_type = "duplicates" THEN Snippet("drop_duplicates", <<>>)
        ELSE IF insight_type = "outliers"
        THEN IF affected_cols # <<>> THEN Snippet("outliers_iqr_column", first)
             ELSE Snippet("outliers_zscore", <<>>)
        ELSE IF insight_type = "data_type_mismatch"
        THEN IF affected_cols # <<>> THEN Snippet("convert_type_column", first)
             ELSE Snippet("infer_types", <<>>)
        ELSE IF insight_type = "pattern_violation"
        THEN IF affected_cols # <<>> THEN Snippet("standardize_format_column", first)
             ELSE Snippet("standardize_text", <<>>)
        ELSE IF insight_type = "quality_issue"
        THEN IF HasKeyword(insight.description, {"correlation"})
             THEN IF Len(affected_cols) >= 2
                  THEN Snippet("high_correlation", SubSeq(affected_cols, 1, 2))
                  ELSE None
             ELSE IF HasKeyword(insight.description, {"cardinality"})
             THEN IF affected_cols # <<>> THEN Snippet("high_cardinality", first)
                  ELSE None
             ELSE None
        ELSE None

\* CodeGenerator._generate_sql: a snippet is the language, the template and
\* the columns the template names.
_generate_sql(insight) ==
    LET insight_type  == insight.type
        affected_cols == insight.affected_columns
    IN  IF insight_type = "duplicates" THEN <<"sql", "delete_duplicates">>
        ELSE IF insight_type = "missing_data"
        THEN IF affected_cols # <<>> THEN <<"sql", "null_values_column", affected_cols[1]>>
             ELSE <<"sql", "null_values">>
        ELSE IF insight_type = "outliers" /\ affected_cols # <<>>
        THEN <<"sql", "outliers_iqr_column", affected_cols[1]>>
        ELSE None

\* CodeGenerator._generate_r
_generate_r(insight) ==
    LET insight_type  == insight.type
        affected_cols == insight.affected_columns
    IN  IF insight_type = "missing_data" /\ affected_cols # <<>>
        THEN <<"r", "missing_values_column", affected_cols[1]>>
        ELSE IF insight_type = "missing_data" THEN None
        ELSE IF insight_type = "duplicates" THEN <<"r", "distinct">>
        ELSE IF insight_type = "outliers" /\ affected_cols # <<>>
        THEN <<"r", "outliers_iqr_column", affected_cols[1]>>
        ELSE None

\* CodeGenerator.generate
generate(insight, language) ==
    IF language = "python" THEN _generate_python(insight)
    ELSE IF language = "sql" THEN _generate_sql(insight)
    ELSE IF language = "r" THEN _generate_r(insight)
    ELSE None

\* The guard of both code-generation loops:
\* insight.recommendation and insight.severity in {"critical", "warning"}
WantsCode(insight) ==
    insight.recommendation # <<>> /\ insight.severity \in {"critical", "warning"}

(***************************************************************************)
(* StoryGenerator.  The summary is the sequence of its sentences, each     *)
(* named by the branch that wrote it.                                      *)
(***************************************************************************)
CountSeverity(insights, sev) ==
    Cardinality({i \in 1..Len(insights) : insights[i].severity = sev})

\* StoryGenerator._create_dataset_intro
_create_dataset_intro(profile_result) ==
    LET row_count == profile_result.row_count
    IN  <<IF row_count < 1000 THEN "small dataset"
          ELSE IF row_count < 100000 THEN "medium-sized dataset"
          ELSE IF row_count < 1000000 THEN "large dataset"
          ELSE "very large dataset">>

\* StoryGenerator._create_quality_assessment
_create_quality_assessment(profile_result) ==
    LET quality_score == profile_result.quality_score
    IN  <<IF quality_score >= 90 THEN "quality excellent"
          ELSE IF quality_score >= 80 THEN "quality very good"
          ELSE IF quality_score >= 70 THEN "quality good"
          ELSE IF quality_score >= 60 THEN "quality fair"
          ELSE IF quality_score >= 50 THEN "quality below average"
          ELSE "quality poor">>

\* StoryGenerator._create_issues_summary
_create_issues_summary(insights) ==
    LET critical_count == CountSeverity(insights, "critical")
        warning_count  == CountSeverity(insights, "warning")
        info_count     == CountSeverity(insights, "info")
    IN  (IF critical_count > 0
         THEN IF critical_count = 1 THEN <<"1 critical issue">>
              ELSE <<ToString(critical_count) \o " critical issues">>
         ELSE <<>>)
        \o
        (IF warning_count > 0
         THEN IF critical_count > 0
              THEN <<"additionally " \o ToString(warning_count) \o " warning"
                        \o (IF warning_count > 1 THEN "s" ELSE "")>>
              ELSE <<ToString(warning_count) \o " warning"
                        \o (IF warning_count > 1 THEN "s" ELSE "") \o " to review">>
         ELSE <<>>)
        \o
        (IF critical_count = 0 /\ warning_count = 0
         THEN IF info_count > 0
              THEN <<ToString(info_count) \o " informational insight"
                        \o (IF info_count > 1 THEN "s" ELSE "")>>
              ELSE <<"no issues detected">>
         ELSE <<>>)

\* StoryGenerator._get_top_issue: <<>> stands for None.
_get_top_issue(insights) ==
    LET important_insights ==
            SelectSeq(insights, LAMBDA i : i.severity \in {"critical", "warning"})
    IN  IF important_insights = <<>> THEN <<>> ELSE <<important_insights[1]>>

\* StoryGenerator._create_top_issue_highlight (descriptions of the model are
\* shorter than the 150 characters above which the code truncates).
_create_top_issue_highlight(issue) ==
    <<IF issue.severity = "critical" THEN "most critical issue is"
      ELSE "main concern is">> \o issue.description

\* StoryGenerator._create_conclusion
_create_conclusion(profile_result, insights) ==
    LET critical_count == CountSeverity(insights, "critical")
        warning_count  == CountSeverity(insights, "warning")
    IN  <<IF profile_result.quality_score >= 85 /\ critical_count = 0
          THEN "ready for analysis"
          ELSE IF critical_count > 0 THEN "address the critical issues"
          ELSE IF warning_count > 0 THEN "review the warnings"
          ELSE "good condition">>

\* StoryGenerator.generate
story_generate(profile_result, insights) ==
    LET top_issue == _get_top_issue(insights)
    IN  _create_dataset_intro(profile_result)
        \o _create_quality_assessment(profile_result)
        \o _create_issues_summary(insights)
        \o (IF top_issue # <<>> THEN _create_top_issue_highlight(top_issue[1]) ELSE <<>>)
        \o _create_conclusion(profile_result, insights)

\* The summary insight generate_insights builds around the summary text.
summary_insight(summary) ==
    CategorizedInsight("info", "quality_issue", summary, <<>>, 0, <<>>, "Low", None)

(***************************************************************************)
(* The rule-based fallback: the list _generate_fallback_insights builds    *)
(* before its code-generation loop.                                        *)
(***************************************************************************)
\* f"{x:.1f}%" of a whole number
Pct(x) == ToString(x) \o ".0%"

\* A faulty variant of the null rule: a column at exactly 50% is reported.
RECURSIVE NullInsights_From50(_)
NullInsights_From50(cols) ==
    IF cols = <<>> THEN <<>>
    ELSE LET col_profile == Head(cols)
         IN  (IF col_profile.null_percentage >= 50
              THEN <<CategorizedInsight("critical", "missing_data",
                        <<"Column", "SP", Quoted(col_profile.column_name), "SP", "has",
                          "SP", Pct(col_profile.null_percentage), "SP", "missing",
                          "SP", "values">>,
                        <<"Consider dropping this column">>,
                        1, <<col_profile.column_name>>, "High", None)>>
              ELSE <<>>) \o NullInsights_From50(Tail(cols))

RECURSIVE NullInsights(_)
NullInsights(cols) ==
    IF cols = <<>> THEN <<>>
    ELSE LET col_profile == Head(cols)
         IN  (IF col_profile.null_percentage > 50
              THEN <<CategorizedInsight("critical", "missing_data",
                        <<"Column", "SP", Quoted(col_profile.column_name), "SP", "has",
                          "SP", Pct(col_profile.null_percentage), "SP", "missing",
                          "SP", "values">>,
                        <<"Consider dropping this column">>,
                        1, <<col_profile.column_name>>, "High", None)>>
              ELSE <<>>) \o NullInsights(Tail(cols))

DuplicateInsights(profile_result) ==
    IF profile_result.quality_metrics # <<>> /\ profile_result.quality_metrics[1] > 5
    THEN <<CategorizedInsight("warning", "duplicates",
              <<"Dataset", "SP", "contains", "SP",
                Pct(profile_result.quality_metrics[1]), "SP", "duplicate", "SP", "rows">>,
              <<"Remove duplicate rows to improve data quality">>,
              2, <<>>, "High", None)>>
    ELSE <<>>

RECURSIVE OutlierInsights(_)
OutlierInsights(cols) ==
    IF cols = <<>> THEN <<>>
    ELSE LET col_profile == Head(cols)
         IN  (IF col_profile.outliers # <<>> /\ col_profile.outliers[1] > 10
              THEN <<CategorizedInsight("warning", "outliers",
                        <<"Column", "SP", Quoted(col_profile.column_name), "SP", "has",
                          "SP", Pct(col_profile.outliers[1]), "SP", "outliers">>,
                        <<"Review outliers">>,
                        2, <<col_profile.column_name>>, "Medium", None)>>
              ELSE <<>>) \o OutlierInsights(Tail(cols))

QualityInsights(profile_result) ==
    LET quality_score == profile_result.quality_score
    IN  IF quality_score >= 85
        THEN <<CategorizedInsight("info", "quality_issue",
                  <<"Data", "SP", "quality", "SP", "is", "SP", "good", "SP",
                    "(" \o ToString(quality_score) \o "/100)">>,
                  <<>>, 5, <<>>, "Low", None)>>
        ELSE IF quality_score < 70
        THEN <<CategorizedInsight("warning", "quality_issue",
                  <<"Data", "SP", "quality", "SP", "is", "SP", "below", "SP", "average",
                    "SP", "(" \o ToString(quality_score) \o "/100)">>,
                  <<"Review and fix the critical and warning issues identified">>,
                  2, <<>>, "High", None)>>
        ELSE <<>>

\* _generate_fallback_insights, lines 241-321
fallback_rules(profile_result) ==
    NullInsights(profile_result.column_profiles)
    \o DuplicateInsights(profile_result)
    \o OutlierInsights(profile_result.column_profiles)
    \o QualityInsights(profile_result)

\* _generate_fallback_insights as a whole: the rules, then the code loop
\* (lines 324-337), where fails holds the positions of the insights for
\* which code_generator.generate raises.
_generate_fallback_insights(profile_result, fails) ==
    LET insights == fallback_rules(profile_result)
    IN  [i \in 1..Len(insights) |->
            IF WantsCode(insights[i]) /\ i \notin fails
            THEN SetCode(insights[i], _generate_python(insights[i]))
            ELSE insights[i]]

(***************************************************************************)
(* The cache: key, serialisation, deserialisation.                         *)
(***************************************************************************)
\* AIService._generate_cache_key: the md5 of the four values joined by "_"
\* is modelled by the four values themselves.
_generate_cache_key(analysis_id, profile_result) ==
    <<analysis_id, profile_result.row_count, profile_result.column_count,
      profile_result.quality_score>>

\* A faulty variant of _insight_to_dict: attributes that hold None are left
\* out of the dictionary.
_insight_to_dict_SkipsNone(insight) ==
    [k \in {a \in DOMAIN insight : a # "code_suggestion" \/ insight[a] # None} |->
        insight[k]]

\* CacheManager._insight_to_dict: the object's public attributes.
_insight_to_dict(insight) == [k \in DOMAIN insight |-> insight[k]]

\* The JSON text of one attribute value: None is written as null, every
\* other value (a string, a number, an array of strings) as itself.
json_value(k, v) ==
    IF k = "code_suggestion" /\ v = None THEN <<"null">> ELSE <<"json", v>>

\* The value a JSON text is read back as.
python_value(j) == IF j = <<"null">> THEN None ELSE j[2]

\* json.dumps(insights_data): an array of objects.
json_dumps(insights_data) ==
    [i \in 1..Len(insights_data) |->
        [k \in DOMAIN insights_data[i] |-> json_value(k, insights_data[i][k])]]

\* json.loads(cached): the list of dictionaries.
json_loads(cached) ==
    [i \in 1..Len(cached) |->
        [k \in DOMAIN cached[i] |-> python_value(cached[i][k])]]

\* The string CacheManager.set stores for a list of insights (lines 84-90).
serialize(insights) ==
    json_dumps([i \in 1..Len(insights) |-> _insight_to_dict(insights[i])])

\* CategorizedInsight(**i): a missing code_suggestion takes the default None.
from_dict(d) ==
    CategorizedInsight(d.severity, d.type, d.description, d.recommendation,
                       d.priority, d.affected_columns, d.impact,
                       IF "code_suggestion" \in DOMAIN d THEN d.code_suggestion ELSE None)

\* [CategorizedInsight(**i) for i in cached_insights] (line 109)
deserialize(cached_insights) ==
    [i \in 1..Len(cached_insights) |-> from_dict(cached_insights[i])]

(***************************************************************************)
(* The retry policy of GroqClient.generate (tenacity's @retry).            *)
(***************************************************************************)
\* stop_after_attempt(3)
MaxAttemptNumber == 3
\* wait_exponential(multiplier=1, min=2, max=10)
WaitMultiplier == 1
WaitMin == 2
WaitMax == 10

Min(a, b) == IF a <= b THEN a ELSE b

\* The provider failures an attempt can end with.
ProviderErrors == {"rate limit", "timeout", "invalid api key"}

\* generate's except clause: "rate limit" in error_str or "timeout" in error_str
IsRetryableError(err) == err \in {"rate limit", "timeout"}

\* The exception generate raises for a provider failure: both branches of
\* the except clause raise GroqAPIException, with different messages.  A
\* message is the sequence of the pieces its f-string joins; cause is the
\* message of the failure the exception stems from.
RaisedByGenerate(err) ==
    [type    |-> "GroqAPIException",
     message |-> <<IF IsRetryableError(err) THEN "Retryable error: "
                   ELSE "API call failed: ", err>>,
     cause   |-> err]

\* The class hierarchy the except clauses and the retry predicate test.
IsInstance(exc, class) ==
    \/ exc.type = class
    \/ class = "Exception" /\ exc.type \in {"GroqAPIException", "RetryError"}

\* retry=retry_if_exception_type((Exception,))
RetryPredicate(exc) == IsInstance(exc, "Exception")

\* A faulty variant of the stop condition: it stops one attempt late.
StopAfterAttempt_Late(attempt_number) == attempt_number > MaxAttemptNumber

\* A faulty variant of the stop rule: the call never gives up.
StopAfterAttempt_Never(attempt_number) == FALSE

\* stop=stop_after_attempt(3)
StopAfterAttempt(attempt_number) == attempt_number >= MaxAttemptNumber

\* wait=wait_exponential(multiplier=1, min=2, max=10): the seconds slept after
\* the failed attempt attempt_number.
WaitExponential(attempt_number) ==
    Max(Max(0, WaitMin), Min(WaitMultiplier * 2 ^ (attempt_number - 1), WaitMax))

\* What tenacity raises once it stops: reraise is not set, so the last
\* failure is wrapped into a RetryError, whose text names the future of the
\* last attempt and not the failure's message.
RaisedOnStop(exc) ==
    [type    |-> "RetryError",
     message |-> <<"RetryError[", "<Future state=finished raised " \o exc.type \o ">",
                   "]">>,
     cause   |-> exc.cause]

\* except GroqAPIException in generate_insights (line 130)
CaughtAsGroqFailure(exc) == IsInstance(exc, "GroqAPIException")

(***************************************************************************)
(* TokenUsageTracker: the counters of one GroqClient instance.             *)
(***************************************************************************)
\* response.usage of a provider response: NoUsage when the provider sent
\* none, else <<prompt_tokens, completion_tokens>>.
NoUsage == <<>>

\* TokenUsageTracker.__init__
NewTracker == [total_input_tokens |-> 0, total_output_tokens |-> 0]

\* A faulty variant of add: the counters are set to the counts of the call.
TokenUsageTracker_add_Overwrites(tracker, input_tokens, output_tokens) ==
    [total_input_tokens  |-> input_tokens,
     total_output_tokens |-> output_tokens]

\* TokenUsageTracker.add
TokenUsageTracker_add(tracker, input_tokens, output_tokens) ==
    [total_input_tokens  |-> tracker.total_input_tokens + input_tokens,
     total_output_tokens |-> tracker.total_output_tokens + output_tokens]

\* if response.usage: self.token_usage.add(...) (lines 183-187)
track_usage(tracker, usage) ==
    IF usage # NoUsage THEN TokenUsageTracker_add(tracker, usage[1], usage[2])
    ELSE tracker

(***************************************************************************)
(* The inputs the model draws from.                                        *)
(***************************************************************************)
Req == {1, 2}
\* The requests of the sequential specification.
SeqReq == {1}

AnalysisIds == {7}

Goals == {"ml_preparation", "business_reporting", "anomaly_detection"}

RowCounts == {500}
QualityScores == {55, 75, 90}
NullPercentages == {50, 60}
OutlierValues == {<<>>, <<20>>}
QualityMetricsValues == {<<>>, <<8>>}

\* The column lists of exactly n columns, named by position.
RECURSIVE ColumnLists(_, _, _)
ColumnLists(n, nulls, outls) ==
    IF n = 0 THEN {<<>>}
    ELSE {Append(cols, ColumnProfile(ColumnNames[n], np, o)) :
            cols \in ColumnLists(n - 1, nulls, outls), np \in nulls, o \in outls}

\* The profiles of at most max columns.
ProfilesUpTo(max, rows, qualities, nulls, outls, qms) ==
    {ProfileResult(rc, cols, q, qm) :
        rc \in rows, q \in qualities, qm \in qms,
        cols \in UNION {ColumnLists(n, nulls, outls) : n \in 0..max}}

ProfilesOf(rows, qualities, nulls, outls, qms) ==
    ProfilesUpTo(MaxCols, rows, qualities, nulls, outls, qms)

Profiles ==
    ProfilesOf(RowCounts, QualityScores, NullPercentages, OutlierValues,
               QualityMetricsValues)

\* Texts the provider may answer with.
ResponseShort == <<"sorry">>
ResponseNoKeyword == <<"no", "SP", "insights", "SP", "available">>
ResponseUnparsable ==
    <<"Note", "SP", "INFO", ":", "SP", "nothing", "SP", "found">>
ResponseThree ==
    <<"INFO", ":", "SP", "dataset", "SP", "looks", "SP", "fine", "NL",
      "warning", ":", "SP", "Outliers", "SP", "in", "SP", "age", "SP", "|", "SP",
      "RECOMMENDATION", ":", "SP", "clip", "SP", "them", "NL",
      "CRITICAL", ":", "SP", "missing", "SP", "values", "SP", "|", "SP", "drop",
      "SP", "rows">>
ResponseTwo ==
    <<"WARNING", ":", "SP", "format", "SP", "of", "SP", "'age'", "NL",
      "garbage", "SP", "line", "NL",
      "Warning", ":", "SP", "duplicate", "SP", "rows", "SP", "|", "SP", "dedupe", "NL">>

Responses ==
    {ResponseShort, ResponseNoKeyword, ResponseUnparsable, ResponseThree, ResponseTwo}

\* The usage data a provider response may carry.
Usages == {NoUsage, <<2, 1>>, <<3, 2>>}
\* The sequential specification leaves the token counts aside: its responses
\* carry no usage data.
SeqUsages == {NoUsage}

(***************************************************************************)
(* State.  profile is the ProfileResult of the analysis under request,     *)
(* cache the Redis keys under "ai_insights:" with their stored arrays,     *)
(* rq[r] the frame of request r of generate_insights.                      *)
(***************************************************************************)
NoException == [type |-> "", message |-> <<>>, cause |-> ""]

Idle ==
    [pc |-> "idle", analysis_id |-> 0, goal_type |-> "", attempts |-> 0,
     in_flight |-> 0, waits |-> <<>>, errors |-> <<>>, response |-> <<>>,
     usage |-> NoUsage, raw_insights |-> <<>>, insights |-> <<>>, idx |-> 0,
     called |-> {}, failed |-> {}, summary |-> "", steps |-> <<>>, outcome |-> "",
     result |-> <<>>, exception |-> NoException]

EmptyCache == [k \in {} |-> <<>>]

\* No call of a single component is under way.
NoUnit == [op |-> "none", args |-> <<>>, out |-> <<>>, done |-> TRUE]

Init ==
    /\ profile \in Profiles
    /\ cache = EmptyCache
    /\ rq = [r \in Req |-> Idle]
    /\ token_usage = NewTracker
    /\ unit = NoUnit

\* A faulty variant of the key of a request: the goal is part of the key.
cache_key_WithGoal(r) ==
    _generate_cache_key(rq[r].analysis_id, profile) \o <<rq[r].goal_type>>

cache_key(r) == _generate_cache_key(rq[r].analysis_id, profile)

\* The frame of r after a step: the step is recorded and the fields changed.
Did(r, step) == [rq[r] EXCEPT !.steps = Append(@, step)]

\* return list (line 109, 133, 139, 148, 219, 337)
Return(f, list) == [f EXCEPT !.pc = "DONE", !.outcome = "returned", !.result = list]

\* except Exception (line 221): raise AIServiceException(f"Failed to
\* generate insights: {str(e)}")
RaiseAIServiceException(f, exc) ==
    [f EXCEPT !.pc = "DONE", !.outcome = "raised",
              !.exception = [type    |-> "AIServiceException",
                             message |-> <<"Failed to generate insights: ">>
                                             \o exc.message,
                             cause   |-> exc.cause]]

(***************************************************************************)
(* generate_insights, step by step.                                        *)
(***************************************************************************)
\* A caller invokes generate_insights(analysis_id, profile_result, goal_type).
Start(r, analysis_id, goal_type) ==
    /\ rq[r].pc \in {"idle", "DONE"}
    /\ rq' = [rq EXCEPT ![r] = [Idle EXCEPT !.pc = "CACHE_CHECK",
                                            !.analysis_id = analysis_id,
                                            !.goal_type = goal_type]]
    /\ UNCHANGED <<profile, cache, token_usage, unit>>

\* CacheManager.get: <<>> stands for None (no entry, or a Redis failure,
\* which is caught), <<list>> for the list of dictionaries read back.
cache_get(key, redis_ok) ==
    IF redis_ok /\ key \in DOMAIN cache THEN <<json_loads(cache[key])>> ELSE <<>>

\* if cached_insights: neither None nor an empty list
Truthy(cached_insights) == cached_insights # <<>> /\ cached_insights[1] # <<>>

\* A faulty variant of STEP 1: a hit is logged but the request goes on to
\* build the prompt.
CacheCheck_HitGoesOn(r, redis_ok) ==
    /\ rq[r].pc = "CACHE_CHECK"
    /\ LET cached_insights == cache_get(cache_key(r), redis_ok)
       IN  rq' = [rq EXCEPT ![r] =
                    [Did(r, IF Truthy(cached_insights) THEN "CACHE_HIT" ELSE "CACHE_MISS")
                        EXCEPT !.pc = "PROMPT"]]
    /\ UNCHANGED <<profile, cache, token_usage, unit>>

\* STEP 1 (lines 103-111)
CacheCheck(r, redis_ok) ==
    /\ rq[r].pc = "CACHE_CHECK"
    /\ LET cached_insights == cache_get(cache_key(r), redis_ok)
       IN  rq' = [rq EXCEPT ![r] =
                    IF Truthy(cached_insights)
                    THEN Return(Did(r, "CACHE_HIT"), deserialize(cached_insights[1]))
                    ELSE [Did(r, "CACHE_MISS") EXCEPT !.pc = "PROMPT"]]
    /\ UNCHANGED <<profile, cache, token_usage, unit>>

\* STEP 2 (lines 116-121): build_fails says whether prompt_builder.build
\* raises, which only the outer handler catches.
Prompt(r, build_fails) ==
    /\ rq[r].pc = "PROMPT"
    /\ rq' = [rq EXCEPT ![r] =
                IF build_fails
                THEN RaiseAIServiceException(Did(r, "PROMPT"),
                        [type |-> "Exception", message |-> <<"prompt">>,
                         cause |-> "prompt"])
                ELSE [Did(r, "PROMPT") EXCEPT !.pc = "GENERATE"]]
    /\ UNCHANGED <<profile, cache, token_usage, unit>>

\* STEP 3: one attempt of GroqClient.generate is sent to the provider.
AttemptStart(r) ==
    /\ rq[r].pc = "GENERATE"
    /\ rq' = [rq EXCEPT ![r] = [(IF rq[r].attempts = 0 THEN Did(r, "GENERATE") ELSE rq[r])
                                 EXCEPT !.pc = "IN_FLIGHT",
                                        !.attempts = @ + 1,
                                        !.in_flight = @ + 1]]
    /\ UNCHANGED <<profile, cache, token_usage, unit>>

\* The attempt succeeds (lines 174-196): the provider's response arrives,
\* its usage is recorded and generate returns the text.  No await stands
\* between these statements, so no other request runs in between.
AttemptSucceed(r, text, usage) ==
    /\ rq[r].pc = "IN_FLIGHT"
    /\ token_usage' = track_usage(token_usage, usage)
    /\ rq' = [rq EXCEPT ![r] = [@ EXCEPT !.pc = "VALIDATE",
                                         !.in_flight = @ - 1,
                                         !.response = text,
                                         !.usage = usage]]
    /\ UNCHANGED <<profile, cache, unit>>

\* The attempt fails (lines 198-207) and the retry policy decides.
AttemptFail(r, err) ==
    /\ rq[r].pc = "IN_FLIGHT"
    /\ LET exc == RaisedByGenerate(err)
           f   == [rq[r] EXCEPT !.in_flight = @ - 1, !.errors = Append(@, err)]
       IN  rq' = [rq EXCEPT ![r] =
                    IF RetryPredicate(exc) /\ ~StopAfterAttempt(f.attempts)
                    THEN [f EXCEPT !.pc = "BACKOFF"]
                    ELSE LET raised == IF RetryPredicate(exc) THEN RaisedOnStop(exc)
                                       ELSE exc
                         IN  IF CaughtAsGroqFailure(raised)
                             THEN [f EXCEPT !.pc = "FALLBACK"]
                             ELSE RaiseAIServiceException(f, raised)]
    /\ UNCHANGED <<profile, cache, token_usage, unit>>

\* The backoff wait elapses and the next attempt may start.
Backoff(r) ==
    /\ rq[r].pc = "BACKOFF"
    /\ rq' = [rq EXCEPT ![r] = [@ EXCEPT !.pc = "GENERATE",
                                         !.waits = Append(@, WaitExponential(rq[r].attempts))]]
    /\ UNCHANGED <<profile, cache, token_usage, unit>>

\* STEP 4 (lines 137-139).  generate has returned: the retry state of that
\* call (attempt number, waits, failures) is gone with it.
Validate(r) ==
    /\ rq[r].pc = "VALIDATE"
    /\ rq' = [rq EXCEPT ![r] = [Did(r, "VALIDATE") EXCEPT
                                 !.attempts = 0, !.waits = <<>>, !.errors = <<>>,
                                 !.pc = IF validate_response(rq[r].response)
                                        THEN "PARSE" ELSE "FALLBACK"]]
    /\ UNCHANGED <<profile, cache, token_usage, unit>>

\* A faulty variant of STEP 5: the "if not raw_insights" check is missing.
ParseStep_NoEmptyCheck(r) ==
    /\ rq[r].pc = "PARSE"
    /\ rq' = [rq EXCEPT ![r] = [Did(r, "PARSE") EXCEPT
                                 !.raw_insights = parse(rq[r].response),
                                 !.pc = "CATEGORIZE"]]
    /\ UNCHANGED <<profile, cache, token_usage, unit>>

\* STEP 5 (lines 143-148)
ParseStep(r) ==
    /\ rq[r].pc = "PARSE"
    /\ LET raw_insights == parse(rq[r].response)
       IN  rq' = [rq EXCEPT ![r] = [Did(r, "PARSE") EXCEPT
                                     !.raw_insights = raw_insights,
                                     !.pc = IF raw_insights = <<>> THEN "FALLBACK"
                                            ELSE "CATEGORIZE"]]
    /\ UNCHANGED <<profile, cache, token_usage, unit>>

\* STEP 6 (lines 155-161)
CategorizeStep(r) ==
    /\ rq[r].pc = "CATEGORIZE"
    /\ LET categorized_insights == categorize(rq[r].raw_insights, profile, rq[r].goal_type)
       IN  rq' = [rq EXCEPT ![r] = [Did(r, "CATEGORIZE") EXCEPT
                                     !.insights = categorized_insights,
                                     !.idx = 1,
                                     !.pc = IF categorized_insights = <<>>
                                            THEN "SUMMARIZE" ELSE "CODEGEN"]]
    /\ UNCHANGED <<profile, cache, token_usage, unit>>

\* A faulty variant of the handler: the failure is only logged.
codegen_failed_Unset(insight) == insight

\* except Exception in the model path's loop (lines 174-176):
\* insight.code_suggestion = None
codegen_failed(insight) == SetCode(insight, None)

\* The loop position after insight idx: the next insight, or the step that
\* follows the loop.
AfterInsight(f, next_pc) ==
    IF f.idx >= Len(f.insights) THEN [f EXCEPT !.pc = next_pc]
    ELSE [f EXCEPT !.idx = @ + 1]

\* STEP 7 (lines 166-176), one iteration: code_fails says whether
\* code_generator.generate raises for this insight.
CodegenStep(r, code_fails) ==
    /\ rq[r].pc = "CODEGEN"
    /\ LET i       == rq[r].idx
           insight == rq[r].insights[i]
           f       == IF i = 1 THEN Did(r, "CODEGEN") ELSE rq[r]
       IN  rq' = [rq EXCEPT ![r] =
                    IF WantsCode(insight)
                    THEN AfterInsight(
                            [f EXCEPT !.called = @ \cup {i},
                                      !.failed = IF code_fails THEN @ \cup {i} ELSE @,
                                      !.insights[i] =
                                          IF code_fails THEN codegen_failed(insight)
                                          ELSE SetCode(insight, _generate_python(insight))],
                            "SUMMARIZE")
                    ELSE AfterInsight(f, "SUMMARIZE")]
    /\ UNCHANGED <<profile, cache, token_usage, unit>>

\* A faulty variant of STEP 8: a failing story generator is not caught and
\* ends the request with AIServiceException.
Summarize_Raises(r, story_fails) ==
    /\ rq[r].pc = "SUMMARIZE"
    /\ rq' = [rq EXCEPT ![r] =
                IF story_fails
                THEN RaiseAIServiceException(
                        [Did(r, "SUMMARIZE") EXCEPT !.summary = "failed"],
                        [type |-> "Exception", message |-> <<"story">>, cause |-> "story"])
                ELSE [Did(r, "SUMMARIZE") EXCEPT
                        !.pc = "CACHE_WRITE",
                        !.summary = "added",
                        !.insights = <<summary_insight(
                                          story_generate(profile, rq[r].insights))>> \o @]]
    /\ UNCHANGED <<profile, cache, token_usage, unit>>

\* STEP 8 (lines 181-203): story_fails says whether story_generator.generate
\* raises.
Summarize(r, story_fails) ==
    /\ rq[r].pc = "SUMMARIZE"
    /\ rq' = [rq EXCEPT ![r] =
                IF story_fails
                THEN [Did(r, "SUMMARIZE") EXCEPT !.pc = "CACHE_WRITE", !.summary = "failed"]
                ELSE [Did(r, "SUMMARIZE") EXCEPT
                        !.pc = "CACHE_WRITE",
                        !.summary = "added",
                        !.insights = <<summary_insight(
                                          story_generate(profile, rq[r].insights))>> \o @]]
    /\ UNCHANGED <<profile, cache, token_usage, unit>>

\* A faulty variant of set: an entry that is already stored is kept (SET NX).
cache_set_KeepsFirst(key, insights, redis_ok) ==
    IF redis_ok /\ key \notin DOMAIN cache
    THEN [k \in DOMAIN cache \cup {key} |-> IF k = key THEN serialize(insights) ELSE cache[k]]
    ELSE cache

\* CacheManager.set: a Redis failure is caught inside set and the entry is
\* not stored.
cache_set(key, insights, redis_ok) ==
    IF redis_ok
    THEN [k \in DOMAIN cache \cup {key} |-> IF k = key THEN serialize(insights) ELSE cache[k]]
    ELSE cache

\* A faulty variant of STEP 9: a failing write is not caught and ends the
\* request with AIServiceException.
CacheWrite_Raises(r, redis_ok) ==
    /\ rq[r].pc = "CACHE_WRITE"
    /\ cache' = cache_set(cache_key(r), rq[r].insights, redis_ok)
    /\ rq' = [rq EXCEPT ![r] =
                IF redis_ok THEN Return(Did(r, "CACHE_WRITE"), rq[r].insights)
                ELSE RaiseAIServiceException(Did(r, "CACHE_WRITE"),
                        [type |-> "RedisError", message |-> <<"redis">>,
                         cause |-> "redis"])]
    /\ UNCHANGED <<profile, token_usage, unit>>

\* STEP 9 (lines 207-219)
CacheWrite(r, redis_ok) ==
    /\ rq[r].pc = "CACHE_WRITE"
    /\ cache' = cache_set(cache_key(r), rq[r].insights, redis_ok)
    /\ rq' = [rq EXCEPT ![r] = Return(Did(r, "CACHE_WRITE"), rq[r].insights)]
    /\ UNCHANGED <<profile, token_usage, unit>>

\* A faulty variant of the fallback: the rule-based list is written to the
\* cache as the list of the model path is.
FallbackBuild_Caches(r) ==
    /\ rq[r].pc = "FALLBACK"
    /\ LET insights == fallback_rules(profile)
           f        == [Did(r, "FALLBACK") EXCEPT !.insights = insights, !.idx = 1]
       IN  /\ rq' = [rq EXCEPT ![r] =
                        IF insights = <<>> THEN Return(f, insights)
                        ELSE [f EXCEPT !.pc = "FALLBACK_CODEGEN"]]
           /\ cache' = cache_set(cache_key(r), insights, TRUE)
    /\ UNCHANGED <<profile, token_usage, unit>>

\* _generate_fallback_insights, the rules (lines 239-321)
FallbackBuild(r) ==
    /\ rq[r].pc = "FALLBACK"
    /\ LET insights == fallback_rules(profile)
           f        == [Did(r, "FALLBACK") EXCEPT !.insights = insights, !.idx = 1]
       IN  rq' = [rq EXCEPT ![r] =
                    IF insights = <<>> THEN Return(f, insights)
                    ELSE [f EXCEPT !.pc = "FALLBACK_CODEGEN"]]
    /\ UNCHANGED <<profile, cache, token_usage, unit>>

\* _generate_fallback_insights, one iteration of its code loop (lines
\* 324-337); after the last insight the list is returned.
FallbackCodegenStep(r, code_fails) ==
    /\ rq[r].pc = "FALLBACK_CODEGEN"
    /\ LET i       == rq[r].idx
           insight == rq[r].insights[i]
           f       == IF i = 1 THEN Did(r, "CODEGEN") ELSE rq[r]
           g       == IF WantsCode(insight)
                      THEN [f EXCEPT !.called = @ \cup {i},
                                     !.failed = IF code_fails THEN @ \cup {i} ELSE @,
                                     !.insights[i] =
                                         IF code_fails THEN insight
                                         ELSE SetCode(insight, _generate_python(insight))]
                      ELSE f
       IN  rq' = [rq EXCEPT ![r] =
                    IF i >= Len(g.insights) THEN Return(g, g.insights)
                    ELSE [g EXCEPT !.idx = @ + 1]]
    /\ UNCHANGED <<profile, cache, token_usage, unit>>

\* Redis drops an entry whose TTL has run out.
Expire(key) ==
    /\ key \in DOMAIN cache
    /\ cache' = [k \in DOMAIN cache \ {key} |-> cache[k]]
    /\ UNCHANGED <<profile, rq, token_usage, unit>>

Step(r) ==
    \/ \E a \in AnalysisIds, g \in Goals : Start(r, a, g)
    \/ \E ok \in BOOLEAN : CacheCheck(r, ok)
    \/ \E fails \in BOOLEAN : Prompt(r, fails)
    \/ AttemptStart(r)
    \/ \E text \in Responses, usage \in SeqUsages : AttemptSucceed(r, text, usage)
    \/ \E err \in ProviderErrors : AttemptFail(r, err)
    \/ Backoff(r)
    \/ Validate(r)
    \/ ParseStep(r)
    \/ CategorizeStep(r)
    \/ \E fails \in BOOLEAN : CodegenStep(r, fails)
    \/ \E fails \in BOOLEAN : Summarize(r, fails)
    \/ \E ok \in BOOLEAN : CacheWrite(r, ok)
    \/ FallbackBuild(r)
    \/ \E fails \in BOOLEAN : FallbackCodegenStep(r, fails)

\* Requests are served one at a time.
Next ==
    \/ \E r \in SeqReq : Step(r)
    \/ \E key \in DOMAIN cache : Expire(key)

Spec == Init /\ [][Next]_vars

(***************************************************************************)
(* Two callers, each issuing one request, served concurrently by one       *)
(* AIService (one GroqClient, one cache): the requests interleave wherever *)
(* the code awaits.                                                        *)
(***************************************************************************)
ConcGoals == {"ml_preparation", "business_reporting"}
ConcResponses == {ResponseTwo, ResponseShort}
ConcErrors == {"timeout"}
ConcProfiles == ProfilesOf(RowCounts, {55}, {60}, {<<>>}, {<<8>>})

ConcInit ==
    /\ profile \in ConcProfiles
    /\ cache = EmptyCache
    /\ rq = [r \in Req |-> Idle]
    /\ token_usage = NewTracker
    /\ unit = NoUnit

ConcStep(r) ==
    \/ rq[r].pc = "idle" /\ \E a \in AnalysisIds, g \in ConcGoals : Start(r, a, g)
    \/ CacheCheck(r, TRUE)
    \/ Prompt(r, FALSE)
    \/ AttemptStart(r)
    \/ \E text \in ConcResponses, usage \in Usages : AttemptSucceed(r, text, usage)
    \/ \E err \in ConcErrors : AttemptFail(r, err)
    \/ Backoff(r)
    \/ Validate(r)
    \/ ParseStep(r)
    \/ CategorizeStep(r)
    \/ CodegenStep(r, FALSE)
    \/ Summarize(r, FALSE)
    \/ CacheWrite(r, TRUE)
    \/ FallbackBuild(r)
    \/ FallbackCodegenStep(r, FALSE)

ConcNext ==
    \/ \E r \in Req : ConcStep(r)
    \/ \E key \in DOMAIN cache : Expire(key)

ConcSpec == ConcInit /\ [][ConcNext]_vars

(***************************************************************************)
(* One component exercised on its own: unit holds the call (the operation, *)
(* its arguments) and, once the call is done, what it returned.            *)
(***************************************************************************)
UnitProfiles ==
    ProfilesUpTo(MaxUnitCols, RowCounts, QualityScores, {0, 50, 51, 100},
                 OutlierValues, QualityMetricsValues)

\* Raw insights: every severity the parser can produce and one it cannot,
\* with one description for every type _detect_type tells apart.
UnitRawInsights ==
    {RawInsight(sev, desc, <<"fix", "SP", "it">>) :
        sev \in {"critical", "warning", "info", "notice"},
        desc \in {<<"missing", "SP", "values">>,
                  <<"duplicate", "SP", "rows">>,
                  <<"Outliers", "SP", "in", "SP", "age">>,
                  <<"type", "SP", "mismatch">>,
                  <<"format", "SP", "of", "SP", "'age'">>,
                  <<"dataset", "SP", "looks", "SP", "fine">>}}

\* The lists of exactly n raw insights.
RECURSIVE RawLists(_)
RawLists(n) ==
    IF n = 0 THEN {<<>>}
    ELSE {Append(l, raw) : l \in RawLists(n - 1), raw \in UnitRawInsights}

(***************************************************************************)
(* PromptBuilder._create_issues_summary.  Here quality_metrics is <<>>     *)
(* (attribute absent) or <<duplicate_percentage, correlation_matrix>>; a   *)
(* correlation matrix is the sequence of its rows <<col1, cells>> in the   *)
(* order of the dict, cells the sequence of <<col2, value>>, a value in    *)
(* hundredths.  A text is the sequence of its pieces.                      *)
(***************************************************************************)
\* high_null_cols[:5], outlier_cols[:5]
MaxShown == 5
\* the two loops over the matrix break at 3 pairs
MaxPairs == 3

\* sep.join(items)
RECURSIVE JoinWith(_, _)
JoinWith(items, sep) ==
    IF items = <<>> THEN <<>>
    ELSE IF Len(items) = 1 THEN <<items[1]>>
    ELSE <<items[1], sep>> \o JoinWith(Tail(items), sep)

\* [p.column_name for p in column_profiles]
NamesOf(column_profiles) ==
    [i \in 1..Len(column_profiles) |-> column_profiles[i].column_name]

\* A faulty variant of FlaggedColumnLines: every flagged column is shown.
FlaggedColumnLines_ShowsAll(header, cols) ==
    IF cols = <<>> THEN <<>>
    ELSE <<<<header>> \o JoinWith(cols, ", ")>>
         \o (IF Len(cols) > MaxShown
              THEN <<<<"  ... and ", ToString(Len(cols) - MaxShown), " more columns">>>>
              ELSE <<>>)

\* The lines a list of flagged columns adds to issues (lines 125-130 and
\* 146-151): the header with the first five names, and the count of the
\* others when there are more than five.
FlaggedColumnLines(header, cols) ==
    IF cols = <<>> THEN <<>>
    ELSE <<<<header>> \o JoinWith(SubSeq(cols, 1, Min(MaxShown, Len(cols))), ", ")>>
         \o (IF Len(cols) > MaxShown
              THEN <<<<"  ... and ", ToString(Len(cols) - MaxShown), " more columns">>>>
              ELSE <<>>)

\* The pairs f"{col1} & {col2}" with abs(corr_value) > 0.9, in the order the
\* two loops meet them.
RECURSIVE CellPairs(_, _)
CellPairs(col1, cells) ==
    IF cells = <<>> THEN <<>>
    ELSE LET v == Head(cells)[2]
         IN  (IF (IF v < 0 THEN -v ELSE v) > 90
              THEN <<col1 \o " & " \o Head(cells)[1]>> ELSE <<>>)
             \o CellPairs(col1, Tail(cells))

RECURSIVE FlaggedPairs(_)
FlaggedPairs(corr_matrix) ==
    IF corr_matrix = <<>> THEN <<>>
    ELSE CellPairs(Head(corr_matrix)[1], Head(corr_matrix)[2])
         \o FlaggedPairs(Tail(corr_matrix))

\* high_corr_pairs (lines 157-165): both loops break once three pairs are
\* collected, so it holds the first three flagged pairs.
HighCorrPairs(corr_matrix) ==
    LET pairs == FlaggedPairs(corr_matrix)
    IN  SubSeq(pairs, 1, Min(MaxPairs, Len(pairs)))

\* PromptBuilder._create_issues_summary
PromptBuilder_create_issues_summary(profile_result) ==
    LET HighNull(p) == p.null_percentage > 30
        HighOutliers(p) == p.outliers # <<>> /\ p.outliers[1] > 10
        qm == profile_result.quality_metrics
        high_corr_pairs == IF qm # <<>> /\ qm[2] # <<>> THEN HighCorrPairs(qm[2]) ELSE <<>>
        issues ==
            FlaggedColumnLines("- High null percentage (>30%) in: ",
                               NamesOf(SelectSeq(profile_result.column_profiles, HighNull)))
            \o (IF qm # <<>> /\ qm[1] > 5
                 THEN <<<<"- ", ToString(qm[1]) \o ".0", "% duplicate rows detected">>>>
                 ELSE <<>>)
            \o FlaggedColumnLines("- Outliers detected (>10%) in: ",
                                  NamesOf(SelectSeq(profile_result.column_profiles, HighOutliers)))
            \o (IF high_corr_pairs # <<>>
                 THEN <<<<"- High correlation (>0.9) between: ">>
                        \o JoinWith(high_corr_pairs, ", ")>>
                 ELSE <<>>)
    IN  IF issues # <<>> THEN JoinLines(issues) ELSE <<"No major issues detected">>

\* The profiles the issues summary is made of: up to MaxSummaryCols columns,
\* each clean, high in nulls, high in outliers or both, with no quality
\* metrics, with few duplicates and no matrix, with duplicates and a matrix
\* of two flagged pairs, or with a full matrix (diagonal included) of seven.
SummaryProfiles ==
    {ProfileResult(500,
                   [i \in 1..n |-> ColumnProfile("c" \o ToString(i), kinds[i][1],
                                                  kinds[i][2])],
                   90, qm) :
        n \in 0..MaxSummaryCols,
        kinds \in [1..MaxSummaryCols -> {30, 31} \X {<<10>>, <<11>>}],
        qm \in {<<>>,
                <<5, <<>>>>,
                <<6, <<<<"a", <<<<"b", 95>>, <<"c", 90>>>>>>,
                       <<"b", <<<<"a", 95>>>>>>>>>>,
                <<0, <<<<"a", <<<<"a", 100>>, <<"b", -97>>, <<"c", 10>>>>>>,
                       <<"b", <<<<"a", -97>>, <<"b", 100>>, <<"c", 91>>>>>>,
                       <<"c", <<<<"a", 10>>, <<"b", 91>>, <<"c", 100>>>>>>>>>>}}

Call(op, args) == [op |-> op, args |-> args, out |-> <<>>, done |-> FALSE]

\* Lines of a model response: the two shapes of the protocol in several
\* spellings, and lines of neither shape.
ParserLines ==
    {<<"WARNING", ":", "SP", "30%", "SP", "nulls", "SP", "in", "SP", "age", "SP",
       "|", "SP", "RECOMMENDATION", ":", "SP", "impute">>,
     <<"SP", "Critical", ":", "SP", "bad", "SP", "|", "SP", "drop", "SP", "it", "SP">>,
     <<"info", ":", "fine">>,
     <<"INFO", ":", "a", "|", "recommendation", ":", "b", "|", "c">>,
     <<"INFO", ":", "x", "SP", "|", "SP", "RECOMMENDATION", ":">>,
     <<"CRITICAL", ":", "SP", "|", "SP", "RECOMMENDATION", ":", "SP", "impute">>,
     <<"bogus", "SP", "line", "SP", "no", "SP", "colon-severity", "SP", "match">>,
     <<"note", ":", "SP", "see", "SP", "|", "SP", "below">>,
     <<"SP">>}

\* The descriptions of exactly n words, a blank between two words: words
\* of every keyword group, in both cases, some holding a keyword inside a
\* longer word, and a word of no group.
RECURSIVE Descriptions(_)
Descriptions(n) ==
    LET words == {"Missing", "blank", "repeated", "duplicates", "anomaly",
                  "Outliers", "prototype", "mismatch", "format", "structure",
                  "unrelated", "multicollinearity", "distinct", "fine"}
    IN  IF n = 0 THEN {<<>>}
        ELSE IF n = 1 THEN {<<w>> : w \in words}
        ELSE {d \o <<"SP", w>> : d \in Descriptions(n - 1), w \in words}

\* Responses handed to validate_response on its own: empty, blank, without
\* a keyword, with a keyword in either case, around the length limit before
\* and after trimming, with a keyword that ends a longer word, and with a
\* keyword that has no colon.
ValidatorResponses ==
    {<<>>,
     <<"SP", "NL", "SP">>,
     <<"random", "SP", "text">>,
     <<"CRITICAL", ":", "SP", "x">>,
     <<"INFO", ":", "x">>,
     <<"SP", "INFO", ":", "abcd", "SP", "SP">>,
     <<"info", ":", "SP", "fine">>,
     <<"Warning", ":", "SP", "ok">>,
     <<"WARNING", "SP", "then", ":", "SP", "x">>,
     <<"MISINFO", ":", "SP", "xy">>}

\* The lists of exactly n lines.
RECURSIVE LineLists(_)
LineLists(n) ==
    IF n = 0 THEN {<<>>}
    ELSE {Append(l, line) : l \in LineLists(n - 1), line \in ParserLines}


\* A call of ClaudeClient.generate(prompt): out holds tenacity's state of the
\* call (the number of the attempt under way, the waits slept, the provider
\* failures met) and how the call ended.
ClaudeCall(prompt) ==
    [op   |-> "ClaudeClient.generate",
     args |-> <<prompt>>,
     out  |-> [attempt_number |-> 1, waits |-> <<>>, errors |-> <<>>,
               result |-> <<>>, exception |-> NoException],
     done |-> FALSE]

UnitCalls ==
    {Call("_generate_fallback_insights", <<p, fails>>) :
        p \in UnitProfiles, fails \in {{}, {1}}}
    \cup
    {Call("categorize", <<raws, p, g>>) :
        raws \in UNION {RawLists(n) : n \in 0..MaxRaw},
        p \in {ProfileResult(500, <<ColumnProfile("age", 0, <<>>)>>, 90, <<>>)},
        g \in Goals \cup {"exploratory"}}
    \cup
    {Call("CacheManager", <<p>>) :
        p \in {ProfileResult(500, <<ColumnProfile("age", 60, <<20>>)>>, 55, <<8>>)}}
    \cup
    {ClaudeCall(<<"Analyze">>)}
    \cup
    {Call("_detect_type", <<description>>) :
        description \in UNION {Descriptions(n) : n \in 0..MaxWords}}
    \cup
    {Call("validate_response", <<response>>) : response \in ValidatorResponses}
    \cup
    {Call("_create_issues_summary", <<p>>) : p \in SummaryProfiles}
    \cup
    {Call("generate",
          <<CategorizerInsight("warning", type, description, <<"fix", "SP", "it">>, 3,
                               cols, "Medium"),
            language>>) :
        type \in {"missing_data", "duplicates", "outliers", "data_type_mismatch",
                  "pattern_violation", "quality_issue", "summary"},
        description \in {<<"High", "SP", "correlation">>, <<"high", "SP", "cardinality">>,
                         <<"low", "SP", "quality">>},
        cols \in {<<>>, <<"age">>, <<"city", "age">>},
        language \in {"python", "sql", "r", "julia"}}
    \cup
    {Call("parse", <<JoinLines(lines)>>) :
        lines \in UNION {LineLists(n) : n \in 0..MaxLines}}

\* The keys and the lists of insights the cache manager is exercised with,
\* made for the profile at hand: the empty list, a categorized list (objects without code_suggestion), the
\* same with its summary, and a fallback list (code suggestions set or None).
CacheKeys == {_generate_cache_key(a, profile) : a \in {7, 8}}
CacheLists ==
    LET categorized == categorize(parse(ResponseTwo), profile, "ml_preparation")
    IN  {<<>>,
         categorized,
         <<summary_insight(story_generate(profile, categorized))>> \o categorized,
         _generate_fallback_insights(profile, {})}

UnitInit ==
    /\ unit \in UnitCalls
    /\ profile = CASE unit.op = "categorize" -> unit.args[2]
                   [] unit.op \in {"_generate_fallback_insights", "CacheManager",
                                  "_create_issues_summary"} ->
                          unit.args[1]
                   [] OTHER -> ProfileResult(500, <<>>, 90, <<>>)
    /\ cache = EmptyCache
    /\ rq = [r \in Req |-> Idle]
    /\ token_usage = NewTracker

Returns(out) == unit' = [unit EXCEPT !.out = out, !.done = TRUE]

\* AIService._generate_fallback_insights(profile_result, goal_type)
ApplyFallback ==
    /\ unit.op = "_generate_fallback_insights" /\ ~unit.done
    /\ Returns(_generate_fallback_insights(unit.args[1], unit.args[2]))
    /\ UNCHANGED <<profile, cache, rq, token_usage>>

\* InsightCategorizer._detect_type(description)
ApplyDetectType ==
    /\ unit.op = "_detect_type" /\ ~unit.done
    /\ Returns(_detect_type(unit.args[1]))
    /\ UNCHANGED <<profile, cache, rq, token_usage>>

\* ResponseParser.validate_response(response)
ApplyValidate ==
    /\ unit.op = "validate_response" /\ ~unit.done
    /\ Returns(validate_response(unit.args[1]))
    /\ UNCHANGED <<profile, cache, rq, token_usage>>

\* PromptBuilder._create_issues_summary(profile_result)
ApplyIssuesSummary ==
    /\ unit.op = "_create_issues_summary" /\ ~unit.done
    /\ Returns(PromptBuilder_create_issues_summary(unit.args[1]))
    /\ UNCHANGED <<profile, cache, rq, token_usage>>

\* CodeGenerator.generate(insight, language)
ApplyGenerate ==
    /\ unit.op = "generate" /\ ~unit.done
    /\ Returns(generate(unit.args[1], unit.args[2]))
    /\ UNCHANGED <<profile, cache, rq, token_usage>>

\* ResponseParser.parse(response)
ApplyParse ==
    /\ unit.op = "parse" /\ ~unit.done
    /\ Returns(parse(unit.args[1]))
    /\ UNCHANGED <<profile, cache, rq, token_usage>>

\* InsightCategorizer.categorize(raw_insights, profile_result, goal_type)
ApplyCategorize ==
    /\ unit.op = "categorize" /\ ~unit.done
    /\ Returns(categorize(unit.args[1], unit.args[2], unit.args[3]))
    /\ UNCHANGED <<profile, cache, rq, token_usage>>

\* CacheManager.delete: a Redis failure is caught and the entry stays.
cache_delete(key, redis_ok) ==
    IF redis_ok THEN [k \in DOMAIN cache \ {key} |-> cache[k]] ELSE cache

\* await cache_manager.set(key, insights)
UnitCacheSet(key, insights, redis_ok) ==
    /\ unit.op = "CacheManager"
    /\ cache' = cache_set(key, insights, redis_ok)
    /\ unit' = [unit EXCEPT !.out = <<"set", key>>]
    /\ UNCHANGED <<profile, rq, token_usage>>

\* await cache_manager.get(key): out holds what get returned.
UnitCacheGet(key, redis_ok) ==
    /\ unit.op = "CacheManager"
    /\ unit' = [unit EXCEPT !.out = <<"get", key, cache_get(key, redis_ok)>>]
    /\ UNCHANGED <<profile, cache, rq, token_usage>>

\* await cache_manager.delete(key)
UnitCacheDelete(key, redis_ok) ==
    /\ unit.op = "CacheManager"
    /\ cache' = cache_delete(key, redis_ok)
    /\ unit' = [unit EXCEPT !.out = <<"delete", key>>]
    /\ UNCHANGED <<profile, rq, token_usage>>

(***************************************************************************)
(* ClaudeClient.generate under its retry policy (tenacity's @retry).       *)
(***************************************************************************)
\* The failures of client.messages.create, by the class the except clauses
\* of generate tell apart; "Exception" is any failure that is no APIError.
ClaudeErrors == {"RateLimitError", "APITimeoutError", "APIError", "Exception"}

\* The except clauses of generate (lines 205-223): every failure leaves the
\* function body as a ClaudeAPIException.
RaisedByClaudeGenerate(err) ==
    [type    |-> "ClaudeAPIException",
     message |-> <<CASE err = "RateLimitError"  -> "Rate limit exceeded: "
                     [] err = "APITimeoutError" -> "API timeout: "
                     [] err = "APIError"        -> "API call failed: "
                     [] OTHER                   -> "Unexpected error: ", err>>,
     cause   |-> err]

\* retry=retry_if_exception_type((RateLimitError, APITimeoutError)), applied
\* to the exception that left the function body; ClaudeAPIException derives
\* from Exception alone.
ClaudeRetryPredicate(exc) == exc.type \in {"RateLimitError", "APITimeoutError"}

\* An attempt whose provider call answers: the usage is added to the
\* tracker and the text of the first content block is returned.
ClaudeAttemptSucceed(text, usage) ==
    /\ unit.op = "ClaudeClient.generate" /\ ~unit.done
    /\ token_usage' = TokenUsageTracker_add(token_usage, usage[1], usage[2])
    /\ unit' = [unit EXCEPT !.out.result = <<text>>, !.done = TRUE]
    /\ UNCHANGED <<profile, cache, rq>>

\* An attempt whose provider call fails with err: the body raises, and
\* tenacity either raises that exception on (the predicate rejects it),
\* raises RetryError (the predicate accepts it and the stop condition
\* holds), or sleeps and starts the next attempt.
ClaudeAttemptFail(err) ==
    /\ unit.op = "ClaudeClient.generate" /\ ~unit.done
    /\ LET exc == RaisedByClaudeGenerate(err)
           n   == unit.out.attempt_number
           met == [unit EXCEPT !.out.errors = Append(@, err)]
       IN  unit' = IF ~ClaudeRetryPredicate(exc)
                   THEN [met EXCEPT !.out.exception = exc, !.done = TRUE]
                   ELSE IF StopAfterAttempt(n)
                   THEN [met EXCEPT !.out.exception = RaisedOnStop(exc), !.done = TRUE]
                   ELSE [met EXCEPT !.out.attempt_number = n + 1,
                                    !.out.waits = Append(@, WaitExponential(n))]
    /\ UNCHANGED <<profile, cache, rq, token_usage>>

UnitNext ==
    \/ ApplyFallback
    \/ ApplyParse
    \/ ApplyValidate
    \/ ApplyIssuesSummary
    \/ ApplyGenerate
    \/ ApplyDetectType
    \/ ApplyCategorize
    \/ \E key \in CacheKeys, insights \in CacheLists, ok \in BOOLEAN :
            UnitCacheSet(key, insights, ok)
    \/ \E key \in CacheKeys, ok \in BOOLEAN : UnitCacheGet(key, ok)
    \/ \E key \in CacheKeys, ok \in BOOLEAN : UnitCacheDelete(key, ok)
    \/ \E key \in DOMAIN cache : Expire(key)
    \/ \E text \in ConcResponses, usage \in Usages \ {NoUsage} :
            ClaudeAttemptSucceed(text, usage)
    \/ \E err \in ClaudeErrors : ClaudeAttemptFail(err)

UnitSpec == UnitInit /\ [][UnitNext]_vars

(***************************************************************************)
(* Properties.                                                             *)
(***************************************************************************)
StepsOf(r) == {rq[r].steps[i] : i \in 1..Len(rq[r].steps)}
Took(r, step) == step \in StepsOf(r)
Returned(r) == rq[r].pc = "DONE" /\ rq[r].outcome = "returned"
Raised(r) == rq[r].pc = "DONE" /\ rq[r].outcome = "raised"

\* The call of GroqClient.generate made by request r has ended in failure.
GenerateFailed(r) ==
    /\ rq[r].errors # <<>>
    /\ rq[r].pc \notin {"GENERATE", "IN_FLIGHT", "BACKOFF", "VALIDATE"}

\* The insights without their code suggestions.
WithoutCode(list) ==
    [i \in 1..Len(list) |->
        [k \in DOMAIN list[i] \ {"code_suggestion"} |-> list[i][k]]]

\* C1: when every attempt of the model call has failed, generate_insights
\* returns the rule-based fallback list and does not raise
\* AIServiceException.
C1_ModelFailureFallsBack ==
    \A r \in Req :
        GenerateFailed(r) =>
            /\ rq[r].outcome # "raised"
            /\ rq[r].pc = "DONE" =>
                   /\ Took(r, "FALLBACK")
                   /\ WithoutCode(rq[r].result) = WithoutCode(fallback_rules(profile))

\* C2: for every well-formed profile the fallback returns a non-empty list.
C2_FallbackNonEmpty ==
    \A r \in Req : Returned(r) /\ Took(r, "FALLBACK") => rq[r].result # <<>>

\* C3: after a successful model call, a response that fails validation or
\* parses to nothing sends the request down the fallback path: it returns
\* the rule-based list and performs no CATEGORIZE, SUMMARIZE or CACHE_WRITE.
C3_InvalidResponseFallsBack ==
    \A r \in Req :
        /\ Took(r, "VALIDATE")
        /\ \/ ~validate_response(rq[r].response)
           \/ Took(r, "PARSE") /\ parse(rq[r].response) = <<>>
        => /\ StepsOf(r) \cap {"CATEGORIZE", "SUMMARIZE", "CACHE_WRITE"} = {}
           /\ rq[r].pc \in {"FALLBACK", "FALLBACK_CODEGEN", "DONE"}
           /\ rq[r].outcome # "raised"
           /\ rq[r].pc = "DONE" =>
                  /\ Returned(r)
                  /\ Took(r, "FALLBACK")
                  /\ WithoutCode(rq[r].result) = WithoutCode(fallback_rules(profile))

\* C3 witness: a request that validated a response, parsed nothing from it
\* and returned the fallback list.
C3_Witness ==
    \E r \in Req :
        /\ Returned(r)
        /\ Took(r, "PARSE")
        /\ rq[r].raw_insights = <<>>
        /\ Took(r, "FALLBACK")
        /\ rq[r].result # <<>>

\* C4: a provider failure that is neither a rate limit nor a timeout ends
\* the generate call at once: one attempt, no backoff wait.
C4_NonRetryableFailsImmediately ==
    \A r \in Req :
        rq[r].errors # <<>> /\ ~IsRetryableError(rq[r].errors[1]) =>
            /\ rq[r].attempts = 1
            /\ rq[r].waits = <<>>
            /\ rq[r].pc \notin {"BACKOFF", "GENERATE", "IN_FLIGHT"}

\* C5: one generate call makes at most 3 provider attempts, one at a time,
\* each later attempt only after the previous one failed and its backoff
\* wait elapsed, and a successful attempt ends the call with its text.
C5_BoundedSequentialAttempts ==
    \A r \in Req :
        /\ rq[r].attempts <= 3
        /\ rq[r].in_flight \in {0, 1}
        /\ rq[r].in_flight = 1 <=> rq[r].pc = "IN_FLIGHT"
        /\ rq[r].pc = "IN_FLIGHT" =>
               /\ Len(rq[r].errors) = rq[r].attempts - 1
               /\ Len(rq[r].waits) = rq[r].attempts - 1
        /\ rq[r].pc = "VALIDATE" =>
               /\ rq[r].attempts \in 1..3
               /\ Len(rq[r].errors) = rq[r].attempts - 1
               /\ rq[r].response \in Responses

\* C5 witness: the third attempt succeeded after two retryable failures.
C5_Witness ==
    \E r \in Req :
        /\ rq[r].pc = "VALIDATE"
        /\ rq[r].attempts = 3
        /\ \A i \in 1..2 : IsRetryableError(rq[r].errors[i])
        /\ rq[r].response = ResponseThree

\* The order of (priority, severity string), written out.
InOrder(a, b) ==
    \/ a.priority < b.priority
    \/ /\ a.priority = b.priority
       /\ <<a.severity, b.severity>> \in
             {<<"critical", "critical">>, <<"critical", "info">>,
              <<"critical", "warning">>, <<"info", "info">>, <<"info", "warning">>,
              <<"warning", "warning">>}

IsSorted(list) == \A i \in 1..Len(list) - 1 : InOrder(list[i], list[i + 1])

\* C6: every list generate_insights returns is sorted ascending by
\* (priority, severity string): on a cache hit, on the model path with and
\* without the summary, and on the fallback path.
C6_ReturnedListSorted ==
    \A r \in Req : Returned(r) => IsSorted(rq[r].result)

\* C6 witness: a cache hit returning a summary and three categorized insights,
\* two of them of equal priority.
C6_Witness ==
    \E r \in Req :
        /\ Returned(r)
        /\ rq[r].steps = <<"CACHE_HIT">>
        /\ Len(rq[r].result) = 4
        /\ rq[r].result[1].priority = 0
        /\ rq[r].result[2].priority = rq[r].result[3].priority
        /\ rq[r].result[2].severity # rq[r].result[3].severity

\* C7: a returned list, cached lists included, has at most one insight of
\* priority 0 and it comes first; the categorizer and the fallback produce
\* no priority 0.
C7_SingleLeadingSummary ==
    \A r \in Req :
        /\ Returned(r) => \A i \in 2..Len(rq[r].result) : rq[r].result[i].priority # 0
        /\ Returned(r) /\ Took(r, "FALLBACK") =>
               \A i \in 1..Len(rq[r].result) : rq[r].result[i].priority # 0
        /\ rq[r].pc \in {"CODEGEN", "SUMMARIZE"} =>
               \A i \in 1..Len(rq[r].insights) : rq[r].insights[i].priority # 0

\* C7 witness: a list served from the cache that starts with the summary.
C7_Witness ==
    \E r \in Req :
        /\ Returned(r)
        /\ rq[r].steps = <<"CACHE_HIT">>
        /\ rq[r].result[1].priority = 0
        /\ Len(rq[r].result) >= 2

\* C8: cache failures never prevent a result: a failing cache read is a
\* miss and the request goes on to PROMPT; a failing cache write changes
\* nothing and the computed list is still returned.
C8_CacheFailuresSwallowed ==
    [][\A r \in Req :
          /\ CacheCheck(r, FALSE) =>
                 /\ rq'[r].pc = "PROMPT"
                 /\ rq'[r].outcome = ""
          /\ CacheWrite(r, FALSE) =>
                 /\ rq'[r].pc = "DONE"
                 /\ rq'[r].outcome = "returned"
                 /\ rq'[r].result = rq[r].insights
                 /\ cache' = cache]_vars

\* C8 witness: a request returned its computed list although an entry was
\* stored under its key all along (the read failed) and that entry is still
\* another list (the write failed too).
C8_Witness ==
    \E r \in Req :
        /\ Returned(r)
        /\ Took(r, "CACHE_MISS")
        /\ Took(r, "CACHE_WRITE")
        /\ cache_key(r) \in DOMAIN cache
        /\ Len(cache[cache_key(r)]) # Len(rq[r].result)

\* C9: a code-generation failure for one insight leaves its code_suggestion
\* null, does not abort the request and does not stop code generation for
\* the insights behind it, on the model path and on the fallback path.
C9_CodegenFailureIsolated ==
    \A r \in Req :
        LET off == IF rq[r].summary = "added" THEN 1 ELSE 0
        IN  /\ rq[r].failed # {} => rq[r].outcome # "raised"
            /\ Returned(r) /\ ~Took(r, "CACHE_HIT") =>
                   /\ \A i \in rq[r].failed :
                          /\ HasCode(rq[r].result[i + off])
                          /\ rq[r].result[i + off].code_suggestion = None
                   /\ rq[r].called =
                          {i \in 1..(Len(rq[r].result) - off) :
                              /\ rq[r].result[i + off].recommendation # <<>>
                              /\ rq[r].result[i + off].severity \in {"critical", "warning"}}

\* C9 witness: on the model path the code generator failed for the first
\* insight and the second one still got its snippet.
C9_Witness ==
    \E r \in Req :
        /\ Returned(r)
        /\ Took(r, "CACHE_WRITE")
        /\ rq[r].summary = "added"
        /\ rq[r].failed = {1}
        /\ 2 \in rq[r].called
        /\ rq[r].result[2].code_suggestion = None
        /\ rq[r].result[3].code_suggestion # None

\* C10: when the story generator fails on the model path, the request
\* returns the categorized list without a summary insight, still performs
\* the cache write with that list, and raises nothing.
C10_SummaryFailureOmitted ==
    /\ [](\A r \in Req :
             rq[r].summary = "failed" =>
                 /\ rq[r].outcome # "raised"
                 /\ rq[r].pc \in {"CACHE_WRITE", "DONE"}
                 /\ \A i \in 1..Len(rq[r].insights) : rq[r].insights[i].priority # 0
                 /\ rq[r].pc = "DONE" =>
                        /\ Returned(r)
                        /\ Took(r, "CACHE_WRITE")
                        /\ rq[r].result = rq[r].insights)
    /\ [][\A r \in Req :
             rq[r].pc = "CACHE_WRITE" /\ rq[r].summary = "failed" /\ rq'[r].pc = "DONE" =>
                 \/ cache' = cache
                 \/ /\ cache_key(r) \in DOMAIN cache'
                    /\ cache'[cache_key(r)] = serialize(rq[r].insights)]_vars

\* C10 witness: the summary failed, the list was returned without it and
\* is the entry now stored in the cache.
C10_Witness ==
    \E r \in Req :
        /\ Returned(r)
        /\ rq[r].summary = "failed"
        /\ rq[r].result # <<>>
        /\ cache_key(r) \in DOMAIN cache
        /\ cache[cache_key(r)] = serialize(rq[r].result)

\* The failures of generate_insights' own steps that the model draws.
OrchestrationFailures == {"prompt"}

\* C11: AIServiceException reaches the caller only for a failure of one of
\* generate_insights' own steps, never for a failure of the model call;
\* and whenever it is raised it is one AIServiceException whose message
\* contains the message of the original failure.
C11_FatalOnlyFromOrchestration ==
    \A r \in Req :
        Raised(r) =>
            /\ rq[r].exception.type = "AIServiceException"
            /\ rq[r].exception.cause \in OrchestrationFailures
            /\ rq[r].errors = <<>>
            /\ Contains(rq[r].exception.message, rq[r].exception.cause)

\* The steps of the model path, in the order of the code.
ModelPathOrder ==
    <<"CACHE_MISS", "PROMPT", "GENERATE", "VALIDATE", "PARSE", "CATEGORIZE",
      "CODEGEN", "SUMMARIZE", "CACHE_WRITE">>

IsPrefix(s, t) == Len(s) <= Len(t) /\ SubSeq(t, 1, Len(s)) = s

\* C12: a cache hit returns the cached list and is the only step of its
\* request (no PROMPT, GENERATE, CODEGEN, SUMMARIZE or CACHE_WRITE); the
\* model client is called only after a cache miss; and on the model path
\* the steps occur in the order PROMPT, GENERATE, VALIDATE, PARSE,
\* CATEGORIZE, CODEGEN, SUMMARIZE, CACHE_WRITE.
C12_HitReturnsAtOnceAndStepsInOrder ==
    /\ [](\A r \in Req :
             /\ Took(r, "CACHE_HIT") =>
                    /\ rq[r].steps = <<"CACHE_HIT">>
                    /\ Returned(r)
                    /\ rq[r].attempts = 0
                    /\ rq[r].called = {}
                    /\ rq[r].summary = ""
             /\ rq[r].attempts > 0 \/ Took(r, "GENERATE") =>
                    /\ Len(rq[r].steps) >= 2
                    /\ rq[r].steps[1] = "CACHE_MISS"
                    /\ rq[r].steps[2] = "PROMPT"
             /\ ~Took(r, "FALLBACK") /\ ~Took(r, "CACHE_HIT") =>
                    IsPrefix(rq[r].steps, ModelPathOrder)
             /\ Took(r, "CACHE_WRITE") => rq[r].steps = ModelPathOrder)
    /\ [][\A r \in Req :
             /\ CacheCheck(r, TRUE)
             /\ cache_key(r) \in DOMAIN cache
             /\ cache[cache_key(r)] # <<>>
             => /\ rq'[r].pc = "DONE"
                /\ rq'[r].outcome = "returned"
                /\ rq'[r].result = deserialize(json_loads(cache[cache_key(r)]))
                /\ cache' = cache]_vars

\* C12 witness: a request served from the cache alone, with the entry it
\* returned still stored.
C12_Witness ==
    \E r \in Req :
        /\ Returned(r)
        /\ rq[r].steps = <<"CACHE_HIT">>
        /\ cache_key(r) \in DOMAIN cache
        /\ rq[r].result = deserialize(json_loads(cache[cache_key(r)]))
        /\ \E i \in 1..Len(rq[r].result) : rq[r].result[i].code_suggestion # None

\* The token counts of the provider call that succeeded for request r (none
\* while no attempt of r has succeeded, or when the response had no usage).
InputTokensOf(r) == IF rq[r].usage = NoUsage THEN 0 ELSE rq[r].usage[1]
OutputTokensOf(r) == IF rq[r].usage = NoUsage THEN 0 ELSE rq[r].usage[2]

\* The sum of count[r] over the requests r of S.
RECURSIVE SumOver(_, _)
SumOver(S, count) ==
    IF S = {} THEN 0
    ELSE LET r == CHOOSE x \in S : TRUE
         IN  count[r] + SumOver(S \ {r}, count)

C14_LastWriterWins ==
    /\ [][\A r \in Req :
             CacheWrite(r, TRUE) =>
                 /\ cache_key(r) \in DOMAIN cache'
                 /\ cache'[cache_key(r)] = serialize(rq[r].insights)
                 /\ rq'[r].outcome = "returned"
                 /\ rq'[r].result = rq[r].insights]_vars
    /\ [](\A r \in Req :
             Returned(r) /\ Took(r, "CACHE_WRITE") =>
                 LET off == IF rq[r].summary = "added" THEN 1 ELSE 0
                 IN  WithoutCode(SubSeq(rq[r].result, 1 + off, Len(rq[r].result)))
                        = WithoutCode(categorize(parse(rq[r].response), profile,
                                                 rq[r].goal_type)))

\* C14 witness: request 2 has written its list under the key, and request
\* 1, which missed on the same key before that write and called the
\* provider itself, is about to write a different list over it.
C14_Witness ==
    /\ Returned(2)
    /\ rq[2].steps = ModelPathOrder
    /\ rq[1].pc = "CACHE_WRITE"
    /\ Took(1, "CACHE_MISS") /\ Took(1, "GENERATE")
    /\ cache_key(1) = cache_key(2)
    /\ cache_key(2) \in DOMAIN cache
    /\ cache[cache_key(2)] = serialize(rq[2].result)
    /\ rq[1].insights # rq[2].result

HasReturned(op) == unit.op = op /\ unit.done

\* The insights of list that report missing data for the column name.
MissingDataFor(list, name) ==
    {i \in 1..Len(list) :
        list[i].type = "missing_data" /\ list[i].affected_columns = <<name>>}

\* C15: for every profile the fallback list holds, for each column whose
\* null_percentage is greater than 50, one insight of severity critical,
\* type missing_data, priority 1 and that column as its affected_columns,
\* and none for a column whose null_percentage is 50 or less.
C15_FallbackReportsHighNullColumns ==
    HasReturned("_generate_fallback_insights") =>
        LET cols == unit.args[1].column_profiles
        IN  \A c \in 1..Len(cols) :
                LET found == MissingDataFor(unit.out, cols[c].column_name)
                IN  /\ Cardinality(found) = IF cols[c].null_percentage > 50 THEN 1 ELSE 0
                    /\ \A i \in found :
                           /\ unit.out[i].severity = "critical"
                           /\ unit.out[i].priority = 1

\* C15 witness: a profile with one column at 50% and one at 51%: the list
\* reports the second and not the first.
C15_Witness ==
    /\ HasReturned("_generate_fallback_insights")
    /\ Len(unit.args[1].column_profiles) = 2
    /\ unit.args[1].column_profiles[1].null_percentage = 50
    /\ unit.args[1].column_profiles[2].null_percentage = 51
    /\ MissingDataFor(unit.out, "age") = {}
    /\ MissingDataFor(unit.out, "email") = {1}

\* C16: when the code generator does not fail, every insight of the
\* fallback list that has a recommendation and is critical or a warning
\* (missing_data, duplicates, outliers, the below-average quality_issue)
\* carries a code_suggestion that is not null.
C16_FallbackActionableHaveCode ==
    HasReturned("_generate_fallback_insights") /\ unit.args[2] = {} =>
        \A i \in 1..Len(unit.out) :
            WantsCode(unit.out[i]) => unit.out[i].code_suggestion # None

\* C17: for every raw insight, every goal_type and every severity, an
\* unrecognized one included, the priority categorize assigns is an integer
\* from 1 to 5 (and categorize returns one insight per raw insight).
C17_PriorityWithinOneToFive ==
    HasReturned("categorize") =>
        /\ Len(unit.out) = Len(unit.args[1])
        /\ \A i \in 1..Len(unit.out) : unit.out[i].priority \in 1..5

\* C17 witness: under ml_preparation a critical missing-data insight, whose
\* lowered priority is held at 1, next to one of an unrecognized severity.
C17_Witness ==
    /\ HasReturned("categorize")
    /\ unit.args[3] = "ml_preparation"
    /\ \E i, j \in 1..Len(unit.out) :
           /\ unit.out[i].severity = "critical"
           /\ unit.out[i].type = "missing_data"
           /\ unit.out[i].priority = 1
           /\ unit.out[j].severity = "notice"
           /\ unit.out[j].priority = 3

\* The base priority of a severity, as the claim states it.
BasePriority(severity) ==
    IF severity = "critical" THEN 1
    ELSE IF severity = "warning" THEN 2
    ELSE IF severity = "info" THEN 5
    ELSE 3

\* The pairs (goal_type, type) for which the claim lowers the priority.
LoweredPairs ==
    ({"ml_preparation"} \X {"missing_data", "duplicates", "outliers"})
    \cup ({"business_reporting"} \X {"pattern_violation", "data_type_mismatch"})
    \cup ({"anomaly_detection"} \X {"outliers"})

\* C18: the categorizer's priority is the base value (critical 1, warning
\* 2, info 5, any other severity 3) lowered by 1 and floored at 1 exactly
\* for ml_preparation with missing_data, duplicates or outliers,
\* business_reporting with pattern_violation or data_type_mismatch, and
\* anomaly_detection with outliers; otherwise it is the base value.  So a
\* warning about outliers has priority 1 under ml_preparation and 2 under
\* business_reporting.
C18_PriorityIsBaseLoweredForGoal ==
    HasReturned("categorize") =>
        \A i \in 1..Len(unit.out) :
            LET insight == unit.out[i]
                base    == BasePriority(insight.severity)
            IN  /\ insight.priority =
                       IF <<unit.args[3], insight.type>> \in LoweredPairs
                       THEN (IF base - 1 < 1 THEN 1 ELSE base - 1)
                       ELSE base
                /\ insight.severity = "warning" /\ insight.type = "outliers" =>
                       /\ unit.args[3] = "ml_preparation" => insight.priority = 1
                       /\ unit.args[3] = "business_reporting" => insight.priority = 2

\* C18 witness: a warning about outliers categorized under
\* anomaly_detection with priority 1, next to an info insight about
\* outliers lowered from 5 to 4.
C18_Witness ==
    /\ HasReturned("categorize")
    /\ unit.args[3] = "anomaly_detection"
    /\ Len(unit.out) = 2
    /\ unit.out[1].severity = "warning"
    /\ unit.out[1].type = "outliers"
    /\ unit.out[1].priority = 1
    /\ unit.out[2].severity = "info"
    /\ unit.out[2].type = "outliers"
    /\ unit.out[2].priority = 4

C20_BackoffDoubles ==
    \A r \in Req :
        \A i \in 1..Len(rq[r].waits) :
            rq[r].waits[i] = IF i = 1 THEN 2 ELSE Min(2 * rq[r].waits[i - 1], 10)


\* C21: ClaudeClient.generate retries a provider call that fails with a
\* rate-limit or timeout error (a further attempt is made while fewer than
\* 3 attempts have been used) and fails at once, with a single attempt, on
\* any other error; in every failing case the caller receives
\* ClaudeAPIException.
C21_ClaudeRetriesRateLimitAndTimeout ==
    [][\A err \in ClaudeErrors :
          ClaudeAttemptFail(err) =>
              IF err \in {"RateLimitError", "APITimeoutError"}
                 /\ unit.out.attempt_number < MaxAttemptNumber
              THEN /\ ~unit'.done
                   /\ unit'.out.attempt_number = unit.out.attempt_number + 1
              ELSE /\ unit'.done
                   /\ unit'.out.exception.type = "ClaudeAPIException"
                   /\ err \notin {"RateLimitError", "APITimeoutError"} =>
                          unit.out.attempt_number = 1]_vars


\* The claim's reading of one line of the protocol: the line trimmed; it
\* has a shape when it starts with a severity keyword in any case and a
\* colon, with a description before the first "|".
ClaimedDescription(line) ==
    LET i == IndexOf(line, "|", 1)
    IN  Strip(SubSeq(line, 3, IF i = 0 THEN Len(line) ELSE i - 1))

ClaimedShape(line) ==
    /\ Len(line) >= 2
    /\ Upper(line[1]) \in {"CRITICAL", "WARNING", "INFO"}
    /\ line[2] = ":"
    /\ ClaimedDescription(line) # <<>>

ClaimedRecommendation(line) ==
    LET i    == IndexOf(line, "|", 1)
        rest == Strip(SubSeq(line, i + 1, Len(line)))
    IN  IF i = 0 THEN <<>>
        ELSE IF Len(rest) >= 2 /\ Upper(rest[1]) = "RECOMMENDATION" /\ rest[2] = ":"
        THEN Strip(SubSeq(rest, 3, Len(rest)))
        ELSE rest

RECURSIVE ClaimedParse(_)
ClaimedParse(lines) ==
    IF lines = <<>> THEN <<>>
    ELSE LET line == Strip(Head(lines))
         IN  (IF ClaimedShape(line)
              THEN <<[severity       |-> Lower(line[1]),
                      description    |-> ClaimedDescription(line),
                      recommendation |-> ClaimedRecommendation(line)]>>
              ELSE <<>>)
             \o ClaimedParse(Tail(lines))

\* C22: parse returns, in line order, exactly one RawInsight for each
\* non-empty line that matches a protocol shape and none for any other
\* line; the severity is the keyword lower-cased, the description the
\* trimmed text between the severity colon and the first "|", the
\* recommendation the trimmed text after the first "|" with an optional
\* "RECOMMENDATION:" prefix removed, or empty when the line has no "|".
C22_ParseFollowsProtocol ==
    \A lines \in UNION {LineLists(n) : n \in 0..MaxLines} :
        unit.op = "parse" /\ unit.done /\ unit.args[1] = JoinLines(lines) =>
            unit.out = ClaimedParse(lines)


\* The keyword groups of the type detection, in their fixed order.
KeywordGroups ==
    <<[keywords |-> {"missing", "null", "empty", "blank"}, type |-> "missing_data"],
      [keywords |-> {"duplicate", "repeated"}, type |-> "duplicates"],
      [keywords |-> {"outlier", "anomal"}, type |-> "outliers"],
      [keywords |-> {"type", "mismatch", "inconsistent type"},
       type |-> "data_type_mismatch"],
      [keywords |-> {"pattern", "format", "structure"}, type |-> "pattern_violation"],
      [keywords |-> {"correlation", "multicollinearity", "related"},
       type |-> "quality_issue"],
      [keywords |-> {"cardinality", "unique", "distinct"}, type |-> "quality_issue"]>>

\* The groups that have a keyword occurring in the lower-cased description.
MatchingGroups(description) ==
    {g \in 1..Len(KeywordGroups) : HasKeyword(description, KeywordGroups[g].keywords)}

\* C23: type detection returns the type of the first keyword group, in the
\* fixed order, that has a keyword occurring in the lower-cased
\* description, and quality_issue when no group matches; a description
\* matching several groups gets the earliest group's type.
C23_FirstMatchingGroupWins ==
    unit.op = "_detect_type" /\ unit.done =>
        LET hits == MatchingGroups(unit.args[1])
        IN  IF hits = {} THEN unit.out = "quality_issue"
            ELSE \E g \in hits :
                    /\ \A h \in hits : g <= h
                    /\ unit.out = KeywordGroups[g].type

\* C23 witness: a description with an outlier keyword before a duplicate
\* keyword got the type of the earlier group, duplicates.
C23_Witness ==
    /\ unit.op = "_detect_type" /\ unit.done
    /\ unit.args[1] = <<"Outliers", "SP", "duplicates">>
    /\ MatchingGroups(unit.args[1]) = {2, 3}
    /\ unit.out = "duplicates"


\* The number of characters of a text, blanks and line breaks counting one
\* each.
RECURSIVE Characters(_)
Characters(text) ==
    IF text = <<>> THEN 0
    ELSE (IF Head(text) \in {"SP", "NL"} THEN 1 ELSE Len(Head(text)))
         + Characters(Tail(text))

\* C24: validate_response(text) is false exactly when text is empty, is
\* only whitespace, has fewer than 10 characters after trimming, or holds
\* none of the substrings CRITICAL:, WARNING:, INFO: in any case; otherwise
\* it is true.  So it is false for "" and "random text" and true for
\* "CRITICAL: x".
C24_ValidateResponseExact ==
    unit.op = "validate_response" /\ unit.done =>
        LET text == unit.args[1]
        IN  /\ unit.out = ~(\/ text = <<>>
                            \/ \A i \in 1..Len(text) : text[i] \in {"SP", "NL"}
                            \/ Characters(Strip(text)) < 10
                            \/ ~\E i \in 1..(Len(text) - 1) :
                                    /\ text[i + 1] = ":"
                                    /\ \E kw \in {"CRITICAL", "WARNING", "INFO"} :
                                           \/ Upper(text[i]) = kw
                                           \/ Upper(text[i]) = "MIS" \o kw
                                           \/ text[i] = "mis" \o Lower(kw))
            /\ text = <<>> => unit.out = FALSE
            /\ text = <<"random", "SP", "text">> => unit.out = FALSE
            /\ text = <<"CRITICAL", ":", "SP", "x">> => unit.out = TRUE

\* C24 witness: a response of 12 characters that has 9 after trimming and
\* holds INFO: was found invalid.
C24_Witness ==
    /\ unit.op = "validate_response" /\ unit.done
    /\ unit.args[1] = <<"SP", "INFO", ":", "abcd", "SP", "SP">>
    /\ Characters(unit.args[1]) = 12
    /\ unit.out = FALSE


\* The lines of the issues summary a call returned, and the items a list
\* line shows after its header.
SummaryLines == Split(unit.out, "NL")

ItemsOf(line) == [k \in 1..(Len(line) \div 2) |-> line[2 * k]]

HighNullHeader == "- High null percentage (>30%) in: "
OutlierHeader == "- Outliers detected (>10%) in: "
CorrelationHeader == "- High correlation (>0.9) between: "

\* The flagged items of the profile of the call, as the claim counts them.
FlaggedNulls ==
    LET High(p) == p.null_percentage > 30
    IN  NamesOf(SelectSeq(unit.args[1].column_profiles, High))

FlaggedOutliers ==
    LET High(p) == p.outliers # <<>> /\ p.outliers[1] > 10
    IN  NamesOf(SelectSeq(unit.args[1].column_profiles, High))

FlaggedCorrelations ==
    IF unit.args[1].quality_metrics = <<>> THEN <<>>
    ELSE FlaggedPairs(unit.args[1].quality_metrics[2])

ManyDuplicates ==
    unit.args[1].quality_metrics # <<>> /\ unit.args[1].quality_metrics[1] > 5

\* The summary has no line for an empty list; for a list of N flagged items
\* it has one line that shows the first min(cap, N) of them.
ShowsFirst(header, flagged, cap) ==
    LET lines == SummaryLines
        at    == {i \in 1..Len(lines) : lines[i][1] = header}
    IN  IF flagged = <<>> THEN at = {}
        ELSE /\ Cardinality(at) = 1
             /\ \A i \in at :
                    ItemsOf(lines[i]) = SubSeq(flagged, 1, Min(cap, Len(flagged)))

\* The line after the list's line gives the count of the items not shown.
HasSuffix(header, count) ==
    LET lines == SummaryLines
    IN  \E i \in 1..(Len(lines) - 1) :
            /\ lines[i][1] = header
            /\ lines[i + 1][1] = "  ... and "
            /\ lines[i + 1][2] = ToString(count)

NoSuffix(header) ==
    LET lines == SummaryLines
    IN  \A i \in 1..(Len(lines) - 1) :
            lines[i][1] = header => lines[i + 1][1] # "  ... and "

CappedWithSuffix(header, flagged, cap) ==
    /\ ShowsFirst(header, flagged, cap)
    /\ IF Len(flagged) > cap THEN HasSuffix(header, Len(flagged) - cap)
       ELSE NoSuffix(header)

\* C25 as stated: each of the three lists of flagged items (columns with
\* null% > 30, columns with outlier% > 10, correlation pairs with
\* |r| > 0.9) shows min(5, N) of its N items and is followed by a suffix
\* with the count N - 5 whenever N > 5; with nothing flagged the summary is
\* the text "No major issues detected".
C25_EveryListCappedAtFive ==
    unit.op = "_create_issues_summary" /\ unit.done =>
        /\ CappedWithSuffix(HighNullHeader, FlaggedNulls, 5)
        /\ CappedWithSuffix(OutlierHeader, FlaggedOutliers, 5)
        /\ CappedWithSuffix(CorrelationHeader, FlaggedCorrelations, 5)
        /\ FlaggedNulls = <<>> /\ FlaggedOutliers = <<>> /\ FlaggedCorrelations = <<>>
           /\ ~ManyDuplicates
               => unit.out = <<"No major issues detected">>

\* C25 as amended: the lists of flagged columns (null% > 30, outlier% > 10)
\* show min(5, N) of their N items, followed by a suffix with the count
\* N - 5 whenever N > 5; the list of correlation pairs with |r| > 0.9 shows
\* min(3, N) of its N pairs and has no suffix; the summary is the text
\* "No major issues detected" exactly when nothing is flagged.
C25_ColumnListsCappedAtFivePairsAtThree ==
    unit.op = "_create_issues_summary" /\ unit.done =>
        /\ CappedWithSuffix(HighNullHeader, FlaggedNulls, 5)
        /\ CappedWithSuffix(OutlierHeader, FlaggedOutliers, 5)
        /\ ShowsFirst(CorrelationHeader, FlaggedCorrelations, 3)
        /\ NoSuffix(CorrelationHeader)
        /\ unit.out = <<"No major issues detected">>
           <=> /\ FlaggedNulls = <<>> /\ FlaggedOutliers = <<>>
               /\ FlaggedCorrelations = <<>> /\ ~ManyDuplicates

\* C25 witness: a summary of six columns high in nulls and seven flagged
\* pairs shows five columns, the count 1 of the sixth, and three pairs.
C25_Witness ==
    /\ unit.op = "_create_issues_summary" /\ unit.done
    /\ Len(FlaggedNulls) = 6
    /\ Len(FlaggedCorrelations) = 7
    /\ HasSuffix(HighNullHeader, 1)
    /\ \E i \in 1..Len(SummaryLines) :
           /\ SummaryLines[i][1] = CorrelationHeader
           /\ ItemsOf(SummaryLines[i]) = <<"a & a", "a & b", "b & a">>


\* The (type, language) pairs the claim counts as supported: a language
\* among python, sql and r, a type of the language's snippet set, and for
\* quality_issue a description holding correlation or cardinality.
SupportedPair(insight, language) ==
    /\ language \in {"python", "sql", "r"}
    /\ insight.type \in
           (IF language = "python"
            THEN {"missing_data", "duplicates", "outliers", "data_type_mismatch",
                  "pattern_violation", "quality_issue"}
            ELSE {"missing_data", "duplicates", "outliers"})
    /\ insight.type = "quality_issue" =>
           HasKeyword(insight.description, {"correlation", "cardinality"})

\* The columns a snippet names.
ColumnsNamed(snippet) == {snippet[i] : i \in 3..Len(snippet)}

\* C26: generate returns none for every (type, language) pair outside the
\* supported set; for a supported pair with non-empty affected_columns the
\* snippet names the first affected column (missing_data, ['age'], python
\* gives a snippet with df['age']), and with empty affected_columns the
\* generic variant is returned.
C26_GenerateSupportedPairs ==
    unit.op = "generate" /\ unit.done =>
        LET insight  == unit.args[1]
            language == unit.args[2]
        IN  IF ~SupportedPair(insight, language) THEN unit.out = None
            ELSE /\ unit.out # None
                 /\ unit.out[1] = language
                 /\ IF insight.affected_columns # <<>>
                    THEN insight.affected_columns[1] \in ColumnsNamed(unit.out)
                    ELSE ColumnsNamed(unit.out) = {}


\* Two lists agree field for field, an insight that never got a
\* code_suggestion reading as one whose code_suggestion is None.
SameInsights(served, computed) ==
    /\ WithoutCode(served) = WithoutCode(computed)
    /\ \A i \in 1..Len(served) :
           served[i].code_suggestion =
               IF "code_suggestion" \in DOMAIN computed[i]
               THEN computed[i].code_suggestion ELSE None

\* C27: the cache key depends on (analysis_id, row_count, column_count,
\* quality_score) and not on goal_type: once a model-path request for g1
\* has written the cache, a later request with the same four values and
\* another goal_type g2 is a cache hit and returns the list computed for g1,
\* with priorities adjusted for g1.
C27_HitIgnoresGoal ==
    [][\A h \in Req : \A r \in Req \ {h} :
          /\ Returned(r) /\ Took(r, "CACHE_WRITE")
          /\ cache_key(r) \in DOMAIN cache
          /\ rq[h].analysis_id = rq[r].analysis_id
          /\ rq[h].goal_type # rq[r].goal_type
          /\ CacheCheck(h, TRUE)
          => /\ cache_key(h) = cache_key(r)
             /\ rq'[h].steps = <<"CACHE_HIT">>
             /\ rq'[h].outcome = "returned"
             /\ SameInsights(rq'[h].result, rq[r].result)
             /\ \A i \in 1..Len(rq'[h].result) :
                    LET insight == rq'[h].result[i]
                    IN  \/ i = 1 /\ insight.priority = 0
                        \/ insight.priority =
                               _calculate_priority(insight.severity, insight.type,
                                                   rq[r].goal_type)]_vars

\* C27 witness: a request for one goal was served from the cache the list
\* a request for another goal had written, and the list holds an insight
\* whose priority is not the one its own goal gives.
C27_Witness ==
    \E h \in Req : \E r \in Req \ {h} :
        /\ Returned(r) /\ Took(r, "CACHE_WRITE")
        /\ Returned(h) /\ rq[h].steps = <<"CACHE_HIT">>
        /\ rq[h].goal_type # rq[r].goal_type
        /\ SameInsights(rq[h].result, rq[r].result)
        /\ \E i \in 1..Len(rq[h].result) :
               LET insight == rq[h].result[i]
               IN  /\ insight.priority # 0
                   /\ insight.priority #
                          _calculate_priority(insight.severity, insight.type,
                                              rq[h].goal_type)


\* The number of times a step occurs among the steps of a request.
RECURSIVE Occurrences(_, _)
Occurrences(steps, step) ==
    IF steps = <<>> THEN 0
    ELSE (IF Head(steps) = step THEN 1 ELSE 0) + Occurrences(Tail(steps), step)

\* The lists the fallback can return for the profile, whichever of its
\* code generations fail.
FallbackLists ==
    {_generate_fallback_insights(profile, fails) :
        fails \in SUBSET (1..Len(fallback_rules(profile)))}

SeverityRank(severity) ==
    CASE severity = "critical" -> 1
      [] severity = "warning" -> 2
      [] severity = "info" -> 3

\* C29: in the categorizer's output, for every goal_type, every critical
\* insight precedes every warning insight and every warning insight
\* precedes every info insight; so when the list has a critical insight,
\* the story generator's top issue (the first critical or warning element)
\* is a critical one.
C29_CriticalThenWarningThenInfo ==
    unit.op = "categorize" /\ unit.done =>
        LET out == unit.out
            graded == {i \in 1..Len(out) :
                          out[i].severity \in {"critical", "warning", "info"}}
        IN  /\ \A i \in graded : \A j \in graded :
                   i < j => SeverityRank(out[i].severity) <= SeverityRank(out[j].severity)
            /\ (\E i \in graded : out[i].severity = "critical") =>
                   /\ _get_top_issue(out) # <<>>
                   /\ _get_top_issue(out)[1].severity = "critical"

\* C29 witness: for ml_preparation a warning about duplicates, raised to
\* priority 1, came first in the response and a critical insight of
\* priority 1 second; the output has the critical one first.
C29_Witness ==
    /\ unit.op = "categorize" /\ unit.done
    /\ unit.args[3] = "ml_preparation"
    /\ Len(unit.args[1]) = 2
    /\ unit.args[1][1].severity = "warning"
    /\ unit.args[1][2].severity = "critical"
    /\ unit.out[1].severity = "critical" /\ unit.out[1].priority = 1
    /\ unit.out[2].severity = "warning" /\ unit.out[2].priority = 1
    /\ unit.out[2].type = "duplicates"


(***************************************************************************)
(* The sequential service with its scheduling made explicit: a request     *)
(* that has been invoked and has not finished keeps running.  Every await  *)
(* of generate_insights ends (the provider call returns or raises, the     *)
(* sleep of the backoff elapses, Redis answers or fails), and the event    *)
(* loop resumes the coroutine: each step is weakly fair.  Nothing obliges  *)
(* a caller to invoke, and no entry has to expire.  The analyses are those *)
(* of ConcProfiles, the responses and failures all those of Next.  For     *)
(* STEP 5 and STEP 6 the weak fairness is written out, WF_vars(A) being    *)
(* []<>~ENABLED <<A>>_vars \/ []<><<A>>_vars: ParseStep(r) is enabled just  *)
(* when the request is at PARSE and CategorizeStep(r) just when it is at   *)
(* CATEGORIZE, and both change the steps of the request.                   *)
(***************************************************************************)
LiveSpec ==
    /\ ConcInit
    /\ [][Next]_vars
    /\ \A r \in SeqReq :
           /\ WF_vars(\E ok \in BOOLEAN : CacheCheck(r, ok))
           /\ WF_vars(\E fails \in BOOLEAN : Prompt(r, fails))
           /\ WF_vars(AttemptStart(r))
           /\ WF_vars(\/ \E text \in Responses, usage \in SeqUsages :
                            AttemptSucceed(r, text, usage)
                      \/ \E err \in ProviderErrors : AttemptFail(r, err))
           /\ WF_vars(Backoff(r))
           /\ WF_vars(Validate(r))
           /\ []<>(rq[r].pc # "PARSE") \/ []<><<ParseStep(r)>>_vars
           /\ []<>(rq[r].pc # "CATEGORIZE") \/ []<><<CategorizeStep(r)>>_vars
           /\ WF_vars(\E fails \in BOOLEAN : CodegenStep(r, fails))
           /\ WF_vars(\E fails \in BOOLEAN : Summarize(r, fails))
           /\ WF_vars(\E ok \in BOOLEAN : CacheWrite(r, ok))
           /\ WF_vars(FallbackBuild(r))
           /\ WF_vars(\E fails \in BOOLEAN : FallbackCodegenStep(r, fails))

\* C30: every generate_insights request terminates: under any pattern of
\* provider, cache, code-generation and summary failures it eventually
\* either returns a list or raises, after at most one GroqClient.generate
\* call and at most 3 provider attempts; it never retries without bound.
C30_RequestTerminates ==
    /\ [](\A r \in SeqReq :
             /\ Occurrences(rq[r].steps, "GENERATE") <= 1
             /\ rq[r].attempts <= 3
             /\ Len(rq[r].errors) <= 3
             /\ Len(rq[r].waits) < 3)
    /\ \A r \in SeqReq :
           (rq[r].pc \notin {"idle", "DONE"}) ~> (Returned(r) \/ Raised(r))

\* C30 witness: a request has ended after three failed provider attempts
\* of its one generate call.
C30_Witness ==
    \E r \in SeqReq :
        /\ Returned(r) \/ Raised(r)
        /\ Occurrences(rq[r].steps, "GENERATE") = 1
        /\ rq[r].attempts = 3
        /\ Len(rq[r].errors) = 3
        /\ Len(rq[r].waits) = 2

====
